---- MODULE Spec2Model ----
(***************************************************************************)
(* Voice-controlled email assistant: the mailbox store, the Postmark       *)
(* webhook, the direct email routes, the voice-command dispatcher and the  *)
(* audio delivery manager, as state machines over the server's state.      *)
(***************************************************************************)
EXTENDS Integers, Sequences, FiniteSets, TLC

VARIABLES
    emails,            \* the emails table: id -> row
    currentEmailId,    \* next value of the emails.id serial
    voiceCommands,     \* the voice_commands table, in insertion order
    req,               \* the request handled last
    res,               \* the response to it
    apiKey,            \* process.env.ELEVENLABS_API_KEY is set
    apiKeyAlt,         \* process.env.ELEVENLABS_API_KEY_ENV_VAR is set
    quotaInfo,         \* VoiceManager.quotaInfo
    now,               \* Date.now(), in minutes
    speak,             \* what the last /api/voice/speak request did
    calls,             \* the speak requests suspended at an await of checkQuotaStatus
    deliveries,        \* the webhook deliveries suspended between the check and the insert
    loops              \* the bulk commands suspended inside their update loop

mailVars  == <<emails, currentEmailId, voiceCommands, req, res>>
voiceVars == <<apiKey, apiKeyAlt, quotaInfo, now, speak>>
inFlight  == <<calls, deliveries, loops>>
vars      == <<emails, currentEmailId, voiceCommands, req, res,
               apiKey, apiKeyAlt, quotaInfo, now, speak, calls, deliveries, loops>>

\* null / undefined of a nullable text column or an optional string
NULL == <<"null">>

(***************************************************************************)
(* Bounds                                                                  *)
(***************************************************************************)
MaxEmails    == 2   \* rows ever inserted into emails
MaxEmailsAll == 1   \* the same, where every action of the dispatcher is tried
MaxLog       == 1   \* rows ever inserted into voice_commands
MaxCommands  == 2   \* the same, where commands are run one after another
MaxTime      == 6   \* minutes the clock runs

(***************************************************************************)
(* Strings are sequences of characters                                     *)
(***************************************************************************)
Lower(c) ==
    CASE c = "A" -> "a"
      [] c = "B" -> "b"
      [] OTHER -> c

ToLowerCase(s) == [i \in DOMAIN s |-> Lower(s[i])]

\* String.prototype.includes
Includes(s, t) ==
    \E i \in 0..(Len(s) - Len(t)) : SubSeq(s, i + 1, i + Len(t)) = t

\* an optional field of an object is set
Has(obj, k) == k \in DOMAIN obj

\* JavaScript truthiness of obj?.k for a string, a boolean and an id value
\* (an id is [isNumber, v]: the number v, or the numeric string of v)
TruthyStr(obj, k)  == Has(obj, k) /\ obj[k] # <<>>
TruthyBool(obj, k) == Has(obj, k) /\ obj[k]
TruthyId(obj, k)   == Has(obj, k) /\ (obj[k].isNumber => obj[k].v # 0)

\* SQL LIKE on case-folded operands: % matches any run, _ any one character
RECURSIVE LikeMatch(_, _)
LikeMatch(s, p) ==
    IF p = <<>> THEN s = <<>>
    ELSE IF Head(p) = "%"
         THEN LikeMatch(s, Tail(p)) \/ (s # <<>> /\ LikeMatch(Tail(s), p))
         ELSE /\ s # <<>>
              /\ (Head(p) = "_" \/ Lower(Head(s)) = Lower(Head(p)))
              /\ LikeMatch(Tail(s), Tail(p))

\* drizzle ilike(column, pattern); a NULL column matches nothing
ILike(col, pattern) == col # NULL /\ LikeMatch(col, pattern)

(***************************************************************************)
(* The mailbox store (DatabaseStorage)                                     *)
(***************************************************************************)
Ids(store) == DOMAIN store

\* the filters without the condition on isDeleted
MatchesIgnoringDeleted(store, f) ==
    {i \in Ids(store) :
        /\ (Has(f, "isRead") => store[i].isRead = f.isRead)
        /\ (Has(f, "isImportant") => store[i].isImportant = f.isImportant)}

\* rows of the store satisfying the filters
Matches(store, f) ==
    {i \in Ids(store) :
        /\ (Has(f, "isRead") => store[i].isRead = f.isRead)
        /\ (Has(f, "isImportant") => store[i].isImportant = f.isImportant)
        /\ (Has(f, "isDeleted") => store[i].isDeleted = f.isDeleted)}

\* ORDER BY received_at DESC over a set of ids
RECURSIVE NewestFirst(_, _)
NewestFirst(store, S) ==
    IF S = {} THEN <<>>
    ELSE LET m == CHOOSE i \in S :
                     \A j \in S : \/ store[j].receivedAt < store[i].receivedAt
                                  \/ (store[j].receivedAt = store[i].receivedAt /\ j <= i)
         IN  <<m>> \o NewestFirst(store, S \ {m})

GetEmails(store, f) ==
    LET rows == NewestFirst(store, Matches(store, f))
    IN  IF Has(f, "limit") /\ f.limit # 0 /\ f.limit < Len(rows)
        THEN SubSeq(rows, 1, f.limit)
        ELSE rows

\* getEmailByMessageId finding no row
GetEmailByMessageIdNone(store, mid) == 0

GetEmailByMessageId(store, mid) ==
    IF \E i \in Ids(store) : store[i].messageId = mid
    THEN CHOOSE i \in Ids(store) : store[i].messageId = mid
    ELSE 0      \* undefined

\* an update that writes the whole row: the flags it is not given fall to false
UpdateEmailReplacing(store, id, updates) ==
    IF id \in Ids(store)
    THEN [store EXCEPT ![id] =
            [k \in DOMAIN @ |-> IF k \in DOMAIN updates THEN updates[k]
                                ELSE IF k \in {"isRead", "isImportant", "isDeleted"} THEN FALSE
                                ELSE @[k]]]
    ELSE store

\* an update that inserts the row when no row has the id
UpdateEmailUpserting(store, id, updates) ==
    IF id \in Ids(store)
    THEN [store EXCEPT ![id] =
            [k \in DOMAIN @ |-> IF k \in DOMAIN updates THEN updates[k] ELSE @[k]]]
    ELSE [i \in Ids(store) \cup {id} |-> IF i = id THEN updates ELSE store[i]]

\* UPDATE emails SET updates WHERE id = id
UpdateEmail(store, id, updates) ==
    IF id \in Ids(store)
    THEN [store EXCEPT ![id] =
            [k \in DOMAIN @ |-> IF k \in DOMAIN updates THEN updates[k] ELSE @[k]]]
    ELSE store

\* DELETE FROM emails WHERE id = id
DeleteEmail(store, id) == [i \in Ids(store) \ {id} |-> store[i]]

SearchEmails(store, query) ==
    LET searchTerm == <<"%">> \o ToLowerCase(query) \o <<"%">>
    IN  NewestFirst(store,
          {i \in Ids(store) :
              /\ store[i].isDeleted = FALSE
              /\ \/ ILike(store[i].subject, searchTerm)
                 \/ ILike(store[i].fromEmail, searchTerm)
                 \/ ILike(store[i].fromName, searchTerm)
                 \/ ILike(store[i].textContent, searchTerm)})

(***************************************************************************)
(* Forwarded-message parsing (lib/postmark.ts).  A body is a sequence of   *)
(* characters in which "/" is a newline, "#" a whole forwarding delimiter  *)
(* line, "F:" "T:" "D:" "S:" the header words From: To: Date: Subject:,    *)
(* and "E" a token of the shape x@y.z                                      *)
(***************************************************************************)
Ws(c) == c \in {" ", "/"}

\* null where an object is expected
NullObj == [k \in {} |-> NULL]

Min(S) == CHOOSE x \in S : \A y \in S : x <= y

\* String.prototype.trim
RECURSIVE Trim(_)
Trim(s) ==
    IF s = <<>> THEN s
    ELSE IF Ws(Head(s)) THEN Trim(Tail(s))
    ELSE IF Ws(s[Len(s)]) THEN Trim(SubSeq(s, 1, Len(s) - 1))
    ELSE s

\* the blanks that end a line within the white space following position k
BlankEnds(body, k) ==
    {i \in (k + 1)..(Len(body) - 1) :
        /\ \A j \in (k + 1)..i : Ws(body[j])
        /\ body[i] = " "
        /\ body[i + 1] = "/"}

\* the text captured by /<marker>\s*([^\n]+)\n/ when matched at position k, or NULL:
\* the line of the first character that is not white space or, when that line does
\* not end, a blank that \s* gives back
Capture(body, k) ==
    IF \E a \in (k + 1)..Len(body) :
          ~Ws(body[a]) /\ \E e \in (a + 1)..Len(body) : body[e] = "/"
    THEN LET a == Min({i \in (k + 1)..Len(body) : ~Ws(body[i])})
         IN  SubSeq(body, a, Min({i \in (a + 1)..Len(body) : body[i] = "/"}) - 1)
    ELSE IF BlankEnds(body, k) # {} THEN <<" ">>
    ELSE NULL

\* the first match of the header line of a marker, or NULL
HeaderLine(body, marker) ==
    IF \E k \in DOMAIN body : body[k] = marker /\ Capture(body, k) # NULL
    THEN Capture(body, Min({k \in DOMAIN body : body[k] = marker /\ Capture(body, k) # NULL}))
    ELSE NULL

\* /^(.+?)\s*<([^>]+)>$/ : the position of the "<" it matches at, or 0
AnglePos(line) ==
    LET n == Len(line)
        P == {q \in 2..(n - 2) :
                /\ line[q] = "<"
                /\ line[n] = ">"
                /\ \A j \in (q + 1)..(n - 1) : line[j] # ">"}
    IN  IF n >= 4 /\ P # {} THEN Min(P) ELSE 0

\* /(\S+@\S+\.\S+)/ : the bounds <<first, last>> of the match, or <<0, 0>>
EmailRun(line) ==
    LET E == {i \in DOMAIN line : line[i] = "E"}
    IN  IF E = {} THEN <<0, 0>>
        ELSE LET e     == Min(E)
                 lefts == {i \in 1..e : \A j \in i..e : line[j] # " "}
                 rghts == {i \in e..Len(line) : \A j \in e..i : line[j] # " "}
             IN  <<Min(lefts), CHOOSE x \in rghts : \A y \in rghts : y <= x>>

\* the From: line given where its "<" and its address are matched
FromParts(fromLine, q, er) ==
    LET nameOnly == Trim(SubSeq(fromLine, 1, er[1] - 1)
                           \o SubSeq(fromLine, er[2] + 1, Len(fromLine)))
    IN  IF q # 0
        THEN [originalFromName |-> Trim(SubSeq(fromLine, 1, q - 1)),
              originalFrom     |-> Trim(SubSeq(fromLine, q + 1, Len(fromLine) - 1))]
        ELSE IF er[1] # 0
             THEN [originalFromName |-> IF nameOnly # <<>> THEN nameOnly ELSE NULL,
                   originalFrom     |-> SubSeq(fromLine, er[1], er[2])]
             ELSE [originalFromName |-> fromLine, originalFrom |-> NULL]

ParseFrom(fromLine) ==
    IF fromLine = NULL
    THEN [originalFromName |-> NULL, originalFrom |-> NULL]
    ELSE FromParts(Trim(fromLine), AnglePos(Trim(fromLine)), EmailRun(Trim(fromLine)))

\* the To: line given where its "<" is matched: the address in brackets, else the line
ToParts(toLine, q) ==
    IF q # 0 THEN Trim(SubSeq(toLine, q + 1, Len(toLine) - 1)) ELSE Trim(toLine)

ParseTo(toLine) == IF toLine = NULL THEN NULL ELSE ToParts(toLine, AnglePos(toLine))

\* a header line trimmed, NULL when there is none
Trimmed(line) == IF line = NULL THEN NULL ELSE Trim(line)

\* parseForwardedEmailInfo returning info even when it has no key
InfoAlways(from, to, date, subject) ==
    [originalFrom     |-> from.originalFrom,
     originalFromName |-> from.originalFromName,
     originalTo       |-> to,
     originalDate     |-> date,
     originalSubject  |-> subject]

\* Object.keys(info).length > 0 ? info : null
InfoOrNull(from, to, date, subject) ==
    IF from.originalFrom = NULL /\ from.originalFromName = NULL
       /\ to = NULL /\ date = NULL /\ subject = NULL
    THEN NullObj
    ELSE [originalFrom     |-> from.originalFrom,
          originalFromName |-> from.originalFromName,
          originalTo       |-> to,
          originalDate     |-> date,
          originalSubject  |-> subject]

\* parseForwardedEmailInfo: the fields found (NULL where not found), or null
ParseForwardedEmailInfo(textBody) ==
    IF textBody = NULL \/ textBody = <<>> THEN NullObj
    ELSE IF ~\E i \in DOMAIN textBody : textBody[i] = "#" THEN NullObj
    ELSE InfoOrNull(ParseFrom(HeaderLine(textBody, "F:")),
                    ParseTo(HeaderLine(textBody, "T:")),
                    Trimmed(HeaderLine(textBody, "D:")),
                    Trimmed(HeaderLine(textBody, "S:")))

NoForwardedInfo ==
    [originalFrom |-> NULL, originalFromName |-> NULL, originalTo |-> NULL,
     originalDate |-> NULL, originalSubject |-> NULL]

Opt(obj, k) == IF Has(obj, k) THEN obj[k] ELSE NULL

\* a non-empty string of the info, as in `info?.field ? info.field : fallback`
OrElse(v, fallback) == IF v # NULL /\ v # <<>> THEN v ELSE fallback

\* the processed email given the forwarding info parsed from the body
Processed(webhookData, forwardedInfo) ==
    LET isForwarded   == forwardedInfo # NullObj
        info          == IF isForwarded THEN forwardedInfo ELSE NoForwardedInfo
    IN  [messageId         |-> webhookData.MessageID,
         fromEmail         |-> OrElse(info.originalFrom, webhookData.From),
         fromName          |-> OrElse(info.originalFromName, Opt(webhookData, "FromName")),
         toEmail           |-> webhookData.To,
         subject           |-> OrElse(info.originalSubject, webhookData.Subject),
         textContent       |-> Opt(webhookData, "TextBody"),
         isForwarded       |-> isForwarded,
         forwardedInfo     |-> info,
         actualSenderEmail |-> IF isForwarded THEN webhookData.From ELSE NULL,
         actualSenderName  |-> IF isForwarded THEN Opt(webhookData, "FromName") ELSE NULL]

ProcessPostmarkWebhook(webhookData) ==
    Processed(webhookData, ParseForwardedEmailInfo(Opt(webhookData, "TextBody")))

ValidatePostmarkWebhook(body) ==
    /\ Has(body, "MessageID")
    /\ Has(body, "From")
    /\ Has(body, "To")
    /\ Has(body, "Subject")
    /\ Has(body, "Date")

\* the row the webhook route hands to insertEmailSchema.parse; the columns it
\* does not set take the table's defaults
EmailData(p) ==
    [messageId         |-> p.messageId,
     fromEmail         |-> p.fromEmail,
     fromName          |-> p.fromName,
     toEmail           |-> p.toEmail,
     subject           |-> p.subject,
     textContent       |-> p.textContent,
     isForwarded       |-> p.isForwarded,
     originalFrom      |-> p.forwardedInfo.originalFrom,
     originalFromName  |-> p.forwardedInfo.originalFromName,
     originalTo        |-> p.forwardedInfo.originalTo,
     originalDate      |-> p.forwardedInfo.originalDate,
     originalSubject   |-> p.forwardedInfo.originalSubject,
     actualSenderEmail |-> NULL,
     actualSenderName  |-> NULL,
     isRead            |-> FALSE,
     isImportant       |-> FALSE,
     isDeleted         |-> FALSE]

\* INSERT INTO emails ... RETURNING: the serial id, received_at = now()
CreateEmail(store, id, insertEmail) ==
    [i \in Ids(store) \cup {id} |->
        IF i = id
        THEN [k \in DOMAIN insertEmail \cup {"id", "receivedAt"} |->
                IF k = "id" \/ k = "receivedAt" THEN id ELSE insertEmail[k]]
        ELSE store[i]]

(***************************************************************************)
(* Intent resolution (processVoiceCommand).  A raw provider result is      *)
(* [throws, json]: the call or JSON.parse throws, or json is the parsed    *)
(* object with its optional action, parameters and confidence.             *)
(* A confidence is a number in hundredths, or a value that is no number:   *)
(* in json a non-empty string that does not read as a number, in the       *)
(* intent the NaN that Math.min and Math.max make of it.                   *)
(***************************************************************************)
EmptyObj == NullObj          \* {}

Hundredths(n) == [isNumber |-> TRUE, v |-> n]
\* a number between 0 and 1 with a third decimal m: v hundredths and m thousandths
Thousandths(n) == [isNumber |-> TRUE, v |-> n \div 10, m |-> n % 10]
NaN == [isNumber |-> FALSE, v |-> 0]

Clamp(lo, hi, x) == IF x < lo THEN lo ELSE IF x > hi THEN hi ELSE x

\* Math.max(0, Math.min(1, confidence || 0.5))
Confidence(json) ==
    IF ~Has(json, "confidence") THEN Hundredths(50)
    ELSE IF ~json.confidence.isNumber THEN NaN
    ELSE IF json.confidence.v = 0 /\ (Has(json.confidence, "m") => json.confidence.m = 0)
    THEN Hundredths(50)
    ELSE IF json.confidence.v \in 0..99 THEN json.confidence
    ELSE Hundredths(Clamp(0, 100, json.confidence.v))

\* processVoiceCommand answering a provider failure with an archive-everything intent
ProcessVoiceCommandArchiving(raw) ==
    IF raw.throws
    THEN [action |-> "archive_emails", parameters |-> [all |-> TRUE],
          confidence |-> Hundredths(0)]
    ELSE [action     |-> IF Has(raw.json, "action") /\ raw.json.action # ""
                         THEN raw.json.action ELSE "unknown",
          parameters |-> IF Has(raw.json, "parameters")
                         THEN raw.json.parameters ELSE EmptyObj,
          confidence |-> Confidence(raw.json)]

ProcessVoiceCommand(raw) ==
    IF raw.throws
    THEN [action |-> "unknown", confidence |-> Hundredths(0)]
    ELSE [action     |-> IF Has(raw.json, "action") /\ raw.json.action # ""
                         THEN raw.json.action ELSE "unknown",
          parameters |-> IF Has(raw.json, "parameters")
                         THEN raw.json.parameters ELSE EmptyObj,
          confidence |-> Confidence(raw.json)]

Parameters(intent) == IF Has(intent, "parameters") THEN intent.parameters ELSE EmptyObj

(***************************************************************************)
(* The dispatcher: the switch of POST /api/voice/command as a function of  *)
(* the intent, the store and the store write that fails (0: none fails).   *)
(* Its value is the store afterwards, whether it threw, the number of      *)
(* store writes that completed and the result: the summary's wording and   *)
(* the count and word interpolated in it, result.emails and switchTab.     *)
(***************************************************************************)
RECURSIVE UpdateFirst(_, _, _, _)
UpdateFirst(store, ids, updates, n) ==
    IF n = 0 THEN store
    ELSE UpdateFirst(UpdateEmail(store, Head(ids), updates), Tail(ids), updates, n - 1)

RECURSIVE DeleteFirst(_, _, _)
DeleteFirst(store, ids, n) ==
    IF n = 0 THEN store
    ELSE DeleteFirst(DeleteEmail(store, Head(ids)), Tail(ids), n - 1)

NoWord == <<>>

Result(store, summary, n, word, list, tab) ==
    [emails |-> store, threw |-> FALSE, writes |-> 0,
     summary |-> summary, count |-> n, word |-> word, list |-> list, switchTab |-> tab]

Say(store, summary) == Result(store, summary, -1, NoWord, <<>>, "")

\* for (const email of ids) await storage.updateEmail(email.id, updates); then the summary
UpdateLoop(store, ids, updates, fail, summary, n, word) ==
    LET threw == fail \in 1..Len(ids)
        done  == IF threw THEN fail - 1 ELSE Len(ids)
    IN  [emails |-> UpdateFirst(store, ids, updates, done),
         threw |-> threw, writes |-> done,
         summary |-> IF threw THEN "" ELSE summary,
         count |-> IF threw THEN -1 ELSE n,
         word |-> IF threw THEN NoWord ELSE word,
         list |-> <<>>, switchTab |-> ""]

\* for (const email of ids) await storage.deleteEmail(email.id); then the summary
DeleteLoop(store, ids, fail, summary, n, word) ==
    LET threw == fail \in 1..Len(ids)
        done  == IF threw THEN fail - 1 ELSE Len(ids)
    IN  [emails |-> DeleteFirst(store, ids, done),
         threw |-> threw, writes |-> done,
         summary |-> IF threw THEN "" ELSE summary,
         count |-> IF threw THEN -1 ELSE n,
         word |-> IF threw THEN NoWord ELSE word,
         list |-> <<>>, switchTab |-> ""]

\* a digest of a non-empty list, else the canned message
Digest(store, list, found, n, word, canned) ==
    IF Len(list) > 0
    THEN Result(store, found, n, word, list, "")
    ELSE Result(store, canned, -1, NoWord, list, "")

\* read_emails summarizing whatever the store returned, an empty list included
ReadEmailsAlwaysSummarizing(intent, store) ==
    LET base == [isDeleted |-> FALSE, limit |-> 5]
        f    == CASE intent.action = "get_unread" -> base @@ [isRead |-> FALSE]
                  [] intent.action = "get_read"   -> base @@ [isRead |-> TRUE]
                  [] OTHER                        -> base
    IN  Result(store, "digest", -1, NoWord, GetEmails(store, f), "")

\* read_emails without the limit of five
ReadEmailsUnlimited(intent, store) ==
    LET base == [isDeleted |-> FALSE]
        f    == CASE intent.action = "get_unread" -> base @@ [isRead |-> FALSE]
                  [] intent.action = "get_read"   -> base @@ [isRead |-> TRUE]
                  [] OTHER                        -> base
        list == GetEmails(store, f)
    IN  IF Len(list) > 0
        THEN Result(store, "digest", -1, NoWord, list, "")
        ELSE Say(store, CASE intent.action = "get_unread" -> "all_caught_up"
                          [] intent.action = "get_read"   -> "no_read_emails"
                          [] OTHER                        -> "inbox_empty")

ReadEmails(intent, store) ==
    LET base == [isDeleted |-> FALSE, limit |-> 5]
        f    == CASE intent.action = "get_unread" -> base @@ [isRead |-> FALSE]
                  [] intent.action = "get_read"   -> base @@ [isRead |-> TRUE]
                  [] OTHER                        -> base
        list == GetEmails(store, f)
    IN  IF Len(list) > 0
        THEN Result(store, "digest", -1, NoWord, list, "")
        ELSE Say(store, CASE intent.action = "get_unread" -> "all_caught_up"
                          [] intent.action = "get_read"   -> "no_read_emails"
                          [] OTHER                        -> "inbox_empty")

SearchCase(p, store) ==
    IF TruthyStr(p, "sender")
    THEN LET r == SearchEmails(store, p.sender)
         IN  Digest(store, r, "found_from", Len(r), p.sender, "none_from")
    ELSE IF TruthyStr(p, "query")
    THEN LET r == SearchEmails(store, p.query)
         IN  Digest(store, r, "found_matching", Len(r), p.query, "none_matching")
    ELSE Say(store, "ask_what_to_search")

\* mark_as_read fetching every email that is not archived, read or not
MarkAsReadEvery(p, store, fail) ==
    IF TruthyBool(p, "all")
    THEN LET unreadEmails == GetEmails(store, [isDeleted |-> FALSE])
         IN  IF Len(unreadEmails) > 0
             THEN UpdateLoop(store, unreadEmails, [isRead |-> TRUE], fail,
                             "marked_all_read", Len(unreadEmails), NoWord)
             ELSE Say(store, "no_unread_to_mark")
    ELSE IF TruthyId(p, "emailId")
    THEN UpdateLoop(store, <<p.emailId.v>>, [isRead |-> TRUE], fail,
                    "marked_that_read", -1, NoWord)
    ELSE Say(store, "ask_which_to_mark_read")

MarkAsRead(p, store, fail) ==
    IF TruthyBool(p, "all")
    THEN LET unreadEmails == GetEmails(store, [isRead |-> FALSE, isDeleted |-> FALSE])
         IN  IF Len(unreadEmails) > 0
             THEN UpdateLoop(store, unreadEmails, [isRead |-> TRUE], fail,
                             "marked_all_read", Len(unreadEmails), NoWord)
             ELSE Say(store, "no_unread_to_mark")
    ELSE IF TruthyId(p, "emailId")
    THEN UpdateLoop(store, <<p.emailId.v>>, [isRead |-> TRUE], fail,
                    "marked_that_read", -1, NoWord)
    ELSE Say(store, "ask_which_to_mark_read")

\* delete_emails falling back to the most recent email when nothing is targeted
DeleteEmailsMostRecent(p, store, fail) ==
    IF TruthyBool(p, "all")
    THEN LET allEmails == GetEmails(store, [isDeleted |-> FALSE])
         IN  UpdateLoop(store, allEmails, [isDeleted |-> TRUE], fail,
                        "deleted_all", Len(allEmails), NoWord)
    ELSE LET recentEmails == GetEmails(store, [isDeleted |-> FALSE, limit |-> 1])
         IN  UpdateLoop(store, recentEmails, [isDeleted |-> TRUE], fail,
                        "email_deleted", -1, NoWord)

DeleteEmails(p, store, fail) ==
    IF TruthyBool(p, "all")
    THEN LET allEmails == GetEmails(store, [isDeleted |-> FALSE])
         IN  IF Len(allEmails) > 0
             THEN UpdateLoop(store, allEmails, [isDeleted |-> TRUE], fail,
                             "deleted_all", Len(allEmails), NoWord)
             ELSE Say(store, "nothing_to_delete")
    ELSE IF TruthyId(p, "emailId")
    THEN UpdateLoop(store, <<p.emailId.v>>, [isDeleted |-> TRUE], fail,
                    "email_deleted", -1, NoWord)
    ELSE Say(store, "ask_which_to_delete")

\* the shape shared by mark_important, mark_unread and remove_important
FlagCase(p, store, fail, filter, updates, all, one, recent, none) ==
    IF TruthyBool(p, "all")
    THEN LET list == GetEmails(store, filter)
         IN  UpdateLoop(store, list, updates, fail, all, Len(list), NoWord)
    ELSE IF TruthyId(p, "emailId") /\ p.emailId.isNumber
    THEN UpdateLoop(store, <<p.emailId.v>>, updates, fail, one, -1, NoWord)
    ELSE LET recentEmails == GetEmails(store, filter @@ [limit |-> 1])
         IN  IF Len(recentEmails) > 0
             THEN UpdateLoop(store, <<recentEmails[1]>>, updates, fail, recent, -1, NoWord)
             ELSE Say(store, none)

MarkImportant(p, store, fail) ==
    FlagCase(p, store, fail, [isDeleted |-> FALSE], [isImportant |-> TRUE],
             "marked_all_important", "marked_important",
             "marked_recent_important", "none_to_mark_important")

\* mark_unread whose all variant also fetches the archived emails
MarkUnreadArchivedToo(p, store, fail) ==
    FlagCase(p, store, fail, EmptyObj, [isRead |-> FALSE],
             "marked_all_unread", "marked_unread",
             "marked_recent_unread", "none_to_mark_unread")

MarkUnread(p, store, fail) ==
    FlagCase(p, store, fail, [isDeleted |-> FALSE], [isRead |-> FALSE],
             "marked_all_unread", "marked_unread",
             "marked_recent_unread", "none_to_mark_unread")

RemoveImportant(p, store, fail) ==
    FlagCase(p, store, fail, [isImportant |-> TRUE, isDeleted |-> FALSE],
             [isImportant |-> FALSE],
             "removed_all_important", "removed_important",
             "removed_recent_important", "no_important_to_modify")

GetImportant(store) ==
    LET list == GetEmails(store, [isImportant |-> TRUE, isDeleted |-> FALSE])
    IN  Digest(store, list, "have_important", Len(list), NoWord, "no_important")

\* get_recent reading five emails when a timeframe is given
GetRecentByTimeframe(p, store) ==
    LET timeframe == IF TruthyStr(p, "timeframe") THEN p.timeframe ELSE <<"r">>
        list      == GetEmails(store, [isDeleted |-> FALSE,
                                       limit |-> IF TruthyStr(p, "timeframe") THEN 5 ELSE 10])
    IN  Digest(store, list, "here_are_your", -1, timeframe, "no_recent")

GetRecent(p, store) ==
    LET timeframe == IF TruthyStr(p, "timeframe") THEN p.timeframe ELSE <<"r">>
        list      == GetEmails(store, [isDeleted |-> FALSE, limit |-> 10])
    IN  Digest(store, list, "here_are_your", -1, timeframe, "no_recent")

\* archive_emails removing the rows instead of flagging them
ArchiveEmailsRemoving(p, store, fail) ==
    IF TruthyBool(p, "all")
    THEN LET list == GetEmails(store, [isDeleted |-> FALSE])
         IN  DeleteLoop(store, list, fail, "archived_all", Len(list), NoWord)
    ELSE Say(store, "ask_which_to_archive")

ArchiveEmails(p, store, fail) ==
    IF TruthyBool(p, "all")
    THEN LET list == GetEmails(store, [isDeleted |-> FALSE])
         IN  UpdateLoop(store, list, [isDeleted |-> TRUE], fail,
                        "archived_all", Len(list), NoWord)
    ELSE IF TruthyStr(p, "query")
    THEN LET searchResults == SearchEmails(store, p.query)
         IN  UpdateLoop(store, searchResults, [isDeleted |-> TRUE], fail,
                        "archived_matching", Len(searchResults), p.query)
    ELSE Say(store, "ask_which_to_archive")

\* restore_emails with all, reading the emails that are not archived
RestoreAllUnarchived(store, fail) ==
    LET archivedEmails == GetEmails(store, [isDeleted |-> FALSE])
    IN  UpdateLoop(store, archivedEmails, [isDeleted |-> FALSE], fail,
                   "restored_all", Len(archivedEmails), NoWord)

RestoreAll(store, fail) ==
    LET archivedEmails == GetEmails(store, [isDeleted |-> TRUE])
    IN  UpdateLoop(store, archivedEmails, [isDeleted |-> FALSE], fail,
                   "restored_all", Len(archivedEmails), NoWord)

\* restore_emails with a query, without the filter on isDeleted
RestoreByQueryUnfiltered(p, store, fail) ==
    LET searchResults == SearchEmails(store, p.query)
    IN  UpdateLoop(store, searchResults, [isDeleted |-> FALSE], fail,
                   "restored_matching", Len(searchResults), p.query)

RestoreByQuery(p, store, fail) ==
    LET searchResults   == SearchEmails(store, p.query)
        IsDeleted(i)    == store[i].isDeleted
        archivedResults == SelectSeq(searchResults, IsDeleted)
    IN  UpdateLoop(store, archivedResults, [isDeleted |-> FALSE], fail,
                   "restored_matching", Len(archivedResults), p.query)

\* restore_emails comparing the sender with the case it was spoken in
RestoreEmailsCaseSensitive(p, store, fail) ==
    IF TruthyBool(p, "all")
    THEN RestoreAll(store, fail)
    ELSE IF TruthyStr(p, "sender")
    THEN LET archivedEmails == GetEmails(store, [isDeleted |-> TRUE])
             FromSender(i)  ==
                 \/ Includes(store[i].fromEmail, p.sender)
                 \/ /\ store[i].fromName # NULL /\ store[i].fromName # <<>>
                    /\ Includes(store[i].fromName, p.sender)
             senderEmails   == SelectSeq(archivedEmails, FromSender)
         IN  UpdateLoop(store, senderEmails, [isDeleted |-> FALSE], fail,
                        "restored_from", Len(senderEmails), p.sender)
    ELSE IF TruthyStr(p, "query")
    THEN RestoreByQuery(p, store, fail)
    ELSE Say(store, "ask_which_to_restore")

RestoreEmails(p, store, fail) ==
    IF TruthyBool(p, "all")
    THEN RestoreAll(store, fail)
    ELSE IF TruthyStr(p, "sender")
    THEN LET archivedEmails == GetEmails(store, [isDeleted |-> TRUE])
             senderName     == ToLowerCase(p.sender)
             FromSender(i)  ==
                 \/ Includes(ToLowerCase(store[i].fromEmail), senderName)
                 \/ /\ store[i].fromName # NULL /\ store[i].fromName # <<>>
                    /\ Includes(ToLowerCase(store[i].fromName), senderName)
             senderEmails   == SelectSeq(archivedEmails, FromSender)
         IN  UpdateLoop(store, senderEmails, [isDeleted |-> FALSE], fail,
                        "restored_from", Len(senderEmails), p.sender)
    ELSE IF TruthyStr(p, "query")
    THEN RestoreByQuery(p, store, fail)
    ELSE Say(store, "ask_which_to_restore")

GetArchived(store) ==
    LET list == GetEmails(store, [isDeleted |-> TRUE])
    IN  Digest(store, list, "have_archived", Len(list), NoWord, "no_archived")

PermanentlyDelete(p, store, fail) ==
    IF TruthyBool(p, "all")
    THEN LET archivedEmails == GetEmails(store, [isDeleted |-> TRUE])
         IN  DeleteLoop(store, archivedEmails, fail,
                        "permanently_deleted_all", Len(archivedEmails), NoWord)
    ELSE IF TruthyStr(p, "query")
    THEN LET archivedEmails == GetEmails(store, [isDeleted |-> TRUE])
             queryTerm      == ToLowerCase(p.query)
             Matching(i)    ==
                 \/ Includes(ToLowerCase(store[i].subject), queryTerm)
                 \/ /\ store[i].textContent # NULL /\ store[i].textContent # <<>>
                    /\ Includes(ToLowerCase(store[i].textContent), queryTerm)
             matchingEmails == SelectSeq(archivedEmails, Matching)
         IN  DeleteLoop(store, matchingEmails, fail,
                        "permanently_deleted_matching", Len(matchingEmails), p.query)
    ELSE Say(store, "ask_which_to_permanently_delete")

\* switch_tab answering with the default tab whatever was asked
SwitchTabAlwaysAll(p, store) == Result(store, "switched_tab", -1, NoWord, <<>>, "all")

SwitchTab(p, store) ==
    LET tabName == IF Has(p, "tab") /\ p.tab # "" THEN p.tab ELSE "all"
    IN  Result(store, "switched_tab", -1, NoWord, <<>>, tabName)

Dispatch(intent, store, fail) ==
    LET p == Parameters(intent)
        a == intent.action
    IN  CASE a \in {"read_emails", "get_unread", "get_read"} -> ReadEmails(intent, store)
          [] a = "search_emails"      -> SearchCase(p, store)
          [] a = "mark_as_read"       -> MarkAsRead(p, store, fail)
          [] a = "delete_emails"      -> DeleteEmails(p, store, fail)
          [] a = "mark_important"     -> MarkImportant(p, store, fail)
          [] a = "get_important"      -> GetImportant(store)
          [] a = "get_recent"         -> GetRecent(p, store)
          [] a = "archive_emails"     -> ArchiveEmails(p, store, fail)
          [] a = "compose_email"      -> Say(store, "compose_coming_soon")
          [] a = "reply_email"        -> Say(store, "reply_coming_soon")
          [] a = "forward_email"      -> Say(store, "forward_coming_soon")
          [] a \in {"restore_emails", "unarchive_emails"} -> RestoreEmails(p, store, fail)
          [] a = "mark_unread"        -> MarkUnread(p, store, fail)
          [] a = "remove_important"   -> RemoveImportant(p, store, fail)
          [] a = "get_archived"       -> GetArchived(store)
          [] a = "permanently_delete" -> PermanentlyDelete(p, store, fail)
          [] a = "switch_tab"         -> SwitchTab(p, store)
          [] OTHER                    -> Say(store, "capabilities")

(***************************************************************************)
(* Requests and responses                                                  *)
(***************************************************************************)
Request(route, input) == [route |-> route, input |-> input]

\* a response without a command result: its status and its message
Reply(status, message) ==
    [status |-> status, summary |-> message, count |-> -1, word |-> NoWord,
     list |-> <<>>, switchTab |-> "", writes |-> 0, emailId |-> 0]

\* res.json(result) of a command whose dispatch returned out
CommandReply(out) ==
    IF out.threw
    THEN [Reply(500, "Failed to process voice command") EXCEPT !.writes = out.writes]
    ELSE [status |-> 200, summary |-> out.summary, count |-> out.count, word |-> out.word,
          list |-> out.list, switchTab |-> out.switchTab, writes |-> out.writes,
          emailId |-> 0]

(***************************************************************************)
(* POST /api/webhooks/postmark                                             *)
(***************************************************************************)
Webhook(maxEmails, webhookData) ==
    /\ req' = Request("webhook", [MessageID |-> Opt(webhookData, "MessageID"),
                                   body |-> webhookData])
    /\ IF ~ValidatePostmarkWebhook(webhookData)
       THEN /\ res' = Reply(400, "Invalid webhook data")
            /\ UNCHANGED <<emails, currentEmailId>>
       ELSE LET processedEmail == ProcessPostmarkWebhook(webhookData)
                existingEmail  == GetEmailByMessageId(emails, processedEmail.messageId)
            IN  IF existingEmail # 0
                THEN /\ res' = Reply(200, "Email already processed")
                     /\ UNCHANGED <<emails, currentEmailId>>
                ELSE /\ currentEmailId <= maxEmails
                     /\ emails' = CreateEmail(emails, currentEmailId, EmailData(processedEmail))
                     /\ currentEmailId' = currentEmailId + 1
                     /\ res' = [Reply(200, "Email processed successfully")
                                  EXCEPT !.emailId = currentEmailId]
    /\ UNCHANGED voiceCommands
    /\ UNCHANGED voiceVars
    /\ UNCHANGED inFlight

(***************************************************************************)
(* PUT /api/emails/:id and DELETE /api/emails/:id                          *)
(***************************************************************************)
PutEmail(id, updates) ==
    /\ req' = Request("put", [id |-> id])
    /\ emails' = UpdateEmail(emails, id, updates)
    /\ res' = IF id \in Ids(emails)
              THEN [Reply(200, "email") EXCEPT !.emailId = id]
              ELSE Reply(404, "Email not found")
    /\ UNCHANGED <<currentEmailId, voiceCommands>>
    /\ UNCHANGED voiceVars
    /\ UNCHANGED inFlight

RemoveEmail(id) ==
    /\ req' = Request("delete", [id |-> id])
    /\ emails' = DeleteEmail(emails, id)
    /\ res' = IF id \in Ids(emails)
              THEN Reply(200, "Email deleted successfully")
              ELSE Reply(404, "Email not found")
    /\ UNCHANGED <<currentEmailId, voiceCommands>>
    /\ UNCHANGED voiceVars
    /\ UNCHANGED inFlight

(***************************************************************************)
(* POST /api/voice/command                                                 *)
(***************************************************************************)
NotAString == <<"object">>

\* the transcript test without the typeof check
ValidTranscriptAnyType(transcript) == transcript # NULL /\ transcript # <<>>

ValidTranscript(transcript) ==
    transcript # NULL /\ transcript # <<>> /\ transcript # NotAString

\* Math.round(confidence * 100) of a confidence between 0 and 1 (a third decimal
\* of 5 is taken upwards; the double product may fall just below the half)
RoundedPercent(confidence) ==
    IF Has(confidence, "m") /\ confidence.m >= 5 THEN confidence.v + 1 ELSE confidence.v

\* the record with the confidence cut to whole hundredths instead of rounded
CommandDataTruncating(transcript, intent) ==
    [transcript |-> transcript,
     intent     |-> intent.action,
     confidence |-> intent.confidence.v,
     success    |-> intent.action # "unknown"]

CommandData(transcript, intent) ==
    [transcript |-> transcript,
     intent     |-> intent.action,
     confidence |-> RoundedPercent(intent.confidence),
     success    |-> intent.action # "unknown"]

VoiceCommand(maxLog, transcript, raw, fail) ==
    IF ~ValidTranscript(transcript)
    THEN /\ req' = Request("command", [transcript |-> transcript])
         /\ res' = Reply(400, "Transcript is required")
         /\ UNCHANGED <<emails, currentEmailId, voiceCommands>>
         /\ UNCHANGED voiceVars
         /\ UNCHANGED inFlight
    ELSE IF fail = 0 /\ ~ProcessVoiceCommand(raw).confidence.isNumber
    THEN \* insertVoiceCommandSchema.parse rejects NaN: nothing is logged or dispatched
         /\ req' = Request("command", [transcript |-> transcript, provider |-> raw,
                                       intent |-> ProcessVoiceCommand(raw)])
         /\ res' = Reply(500, "Failed to process voice command")
         /\ UNCHANGED <<emails, currentEmailId, voiceCommands>>
         /\ UNCHANGED voiceVars
         /\ UNCHANGED inFlight
    ELSE LET intent == ProcessVoiceCommand(raw)
             out    == Dispatch(intent, emails, fail)
         IN  /\ Len(voiceCommands) < maxLog
             /\ intent.confidence.isNumber
             /\ (fail # 0 => out.threw)
             /\ req' = Request("command", [transcript |-> transcript, provider |-> raw,
                                           intent |-> intent])
             /\ voiceCommands' = Append(voiceCommands, CommandData(transcript, intent))
             /\ emails' = out.emails
             /\ res' = CommandReply(out)
             /\ UNCHANGED currentEmailId
             /\ UNCHANGED voiceVars
             /\ UNCHANGED inFlight

(***************************************************************************)
(* The audio delivery manager (VoiceManager) and POST /api/voice/speak.    *)
(* A text is its kind (missing, blank, string) and its length; a provider  *)
(* reply is that the call throws, answers non-OK, or answers OK with data. *)
(***************************************************************************)
QuotaCacheTime == 5          \* minutes
MAX_LENGTH == 9500
TruncationMarkerLength == 41 \* '... Content truncated for audio playback.'
DefaultCharacterLimit == 10000

NoQuota == EmptyObj          \* null

\* checkQuotaStatus without the return on a missing key
CheckQuotaStatusNoKeyCheck(key, cache, t, fetch) ==
    IF fetch.kind = "ok"
    THEN LET fresh == [charactersUsed      |-> fetch.character_count,
                       charactersLimit     |-> DefaultCharacterLimit,
                       charactersRemaining |-> DefaultCharacterLimit - fetch.character_count,
                       lastChecked         |-> t]
         IN  [quota |-> fresh, cache |-> fresh, fetched |-> TRUE]
    ELSE [quota |-> NoQuota, cache |-> cache, fetched |-> TRUE]

\* checkQuotaStatus serving the cache for one minute more
CheckQuotaStatusStale(key, cache, t, fetch) ==
    IF ~key
    THEN [quota |-> NoQuota, cache |-> cache, fetched |-> FALSE]
    ELSE IF cache # NoQuota /\ t - cache.lastChecked <= QuotaCacheTime
    THEN [quota |-> cache, cache |-> cache, fetched |-> FALSE]
    ELSE IF fetch.kind = "ok"
    THEN LET limit == IF fetch.character_limit # 0
                      THEN fetch.character_limit ELSE DefaultCharacterLimit
             fresh == [charactersUsed      |-> fetch.character_count,
                       charactersLimit     |-> limit,
                       charactersRemaining |-> limit - fetch.character_count,
                       lastChecked         |-> t]
         IN  [quota |-> fresh, cache |-> fresh, fetched |-> TRUE]
    ELSE [quota |-> NoQuota, cache |-> cache, fetched |-> TRUE]

\* checkQuotaStatus dropping the cache when the fetch fails
CheckQuotaStatusForgetting(key, cache, t, fetch) ==
    IF ~key
    THEN [quota |-> NoQuota, cache |-> cache, fetched |-> FALSE]
    ELSE IF cache # NoQuota /\ t - cache.lastChecked < QuotaCacheTime
    THEN [quota |-> cache, cache |-> cache, fetched |-> FALSE]
    ELSE IF fetch.kind = "ok"
    THEN LET limit == IF fetch.character_limit # 0
                      THEN fetch.character_limit ELSE DefaultCharacterLimit
             fresh == [charactersUsed      |-> fetch.character_count,
                       charactersLimit     |-> limit,
                       charactersRemaining |-> limit - fetch.character_count,
                       lastChecked         |-> t]
         IN  [quota |-> fresh, cache |-> fresh, fetched |-> TRUE]
    ELSE [quota |-> NoQuota, cache |-> NoQuota, fetched |-> TRUE]

\* checkQuotaStatus: the value returned, the cache afterwards, whether it fetched
CheckQuotaStatus(key, cache, t, fetch) ==
    IF ~key
    THEN [quota |-> NoQuota, cache |-> cache, fetched |-> FALSE]
    ELSE IF cache # NoQuota /\ t - cache.lastChecked < QuotaCacheTime
    THEN [quota |-> cache, cache |-> cache, fetched |-> FALSE]
    ELSE IF fetch.kind = "ok"
    THEN LET limit == IF fetch.character_limit # 0
                      THEN fetch.character_limit ELSE DefaultCharacterLimit
             fresh == [charactersUsed      |-> fetch.character_count,
                       charactersLimit     |-> limit,
                       charactersRemaining |-> limit - fetch.character_count,
                       lastChecked         |-> t]
         IN  [quota |-> fresh, cache |-> fresh, fetched |-> TRUE]
    ELSE [quota |-> NoQuota, cache |-> cache, fetched |-> TRUE]

RECURSIVE FloorPow2(_)
FloorPow2(k) == IF k < 2 THEN 1 ELSE 2 * FloorPow2(k \div 2)

\* Math.ceil(textLength * 1.1) in IEEE-754 doubles: 1.1 is 11/10 + 4/(10 * 2^52),
\* so where 11n/10 is an integer the product rounds to the next double above it
\* exactly when 4n/5 exceeds the largest power of two not above 11n/10
RequiredChars(textLength) ==
    LET exact == (11 * textLength) \div 10
    IN  IF (11 * textLength) % 10 # 0 THEN exact + 1
        ELSE IF textLength > 0 /\ 4 * textLength > 5 * FloorPow2(exact) THEN exact + 1
        ELSE exact

\* canHandleRequest without the 10% buffer
CanHandleRequestNoBuffer(check, textLength) ==
    /\ check.quota # NoQuota
    /\ check.quota.charactersRemaining >= textLength

CanHandleRequest(check, textLength) ==
    /\ check.quota # NoQuota
    /\ check.quota.charactersRemaining >= RequiredChars(textLength)

\* generateSpeech: the provider is called when a key is configured; any failure throws
GenerateSpeech(key, keyAlt, synth) ==
    [called |-> key \/ keyAlt, threw |-> ~(key \/ keyAlt) \/ synth # "ok"]

\* generateSpeechWithFallback charging the characters of a successful synthesis
\* to the cached quota
WithFallbackCharging(textLength, check, gen) ==
    IF ~CanHandleRequest(check, textLength)
    THEN [kind |-> "useWebSpeech", cache |-> check.cache,
          fetched |-> check.fetched, synthesized |-> FALSE, threw |-> FALSE]
    ELSE [kind |-> IF gen.threw THEN "useWebSpeech" ELSE "audioBuffer",
          cache |-> IF gen.threw \/ check.cache = NoQuota THEN check.cache
                    ELSE [check.cache EXCEPT
                            !.charactersUsed = @ + textLength,
                            !.charactersRemaining = @ - textLength],
          fetched |-> check.fetched, synthesized |-> gen.called, threw |-> gen.threw]

\* what generateSpeechWithFallback returns given the quota check and the synthesis
WithFallback(textLength, check, gen) ==
    IF ~CanHandleRequest(check, textLength)
    THEN [kind |-> "useWebSpeech", cache |-> check.cache,
          fetched |-> check.fetched, synthesized |-> FALSE, threw |-> FALSE]
    ELSE [kind |-> IF gen.threw THEN "useWebSpeech" ELSE "audioBuffer",
          cache |-> check.cache,
          fetched |-> check.fetched, synthesized |-> gen.called, threw |-> gen.threw]

\* generateSpeechWithFallback without the catch around generateSpeech
GenerateSpeechRethrowing(textLength, key, keyAlt, cache, t, fetch, synth) ==
    LET out == WithFallback(textLength, CheckQuotaStatus(key, cache, t, fetch),
                            GenerateSpeech(key, keyAlt, synth))
    IN  [out EXCEPT !.kind = IF out.threw THEN "thrown" ELSE @]

\* generateSpeechWithFallback: what it returns and the calls it made
GenerateSpeechWithFallback(textLength, key, keyAlt, cache, t, fetch, synth) ==
    WithFallback(textLength, CheckQuotaStatus(key, cache, t, fetch),
                 GenerateSpeech(key, keyAlt, synth))

\* the truncation applied from MAX_LENGTH characters on
TruncateFromLimit(len) ==
    IF len >= MAX_LENGTH THEN MAX_LENGTH + TruncationMarkerLength ELSE len

\* the text the route hands to the manager
Truncate(len) == IF len > MAX_LENGTH THEN MAX_LENGTH + TruncationMarkerLength ELSE len

Speak(text, fetch, synth) ==
    IF text.kind # "string" \/ text.len = 0
    THEN /\ speak' = [status |-> 400, kind |-> "error", given |-> text, handed |-> 0,
                      fetched |-> FALSE, synthesized |-> FALSE, threw |-> FALSE,
                      fetch |-> "none"]
         /\ UNCHANGED <<apiKey, apiKeyAlt, quotaInfo, now>>
         /\ UNCHANGED mailVars
         /\ UNCHANGED inFlight
    ELSE LET handed == Truncate(text.len)
             out    == GenerateSpeechWithFallback(handed, apiKey, apiKeyAlt,
                                                  quotaInfo, now, fetch, synth)
         IN  /\ (fetch.kind # "none" <=> out.fetched)
             /\ (synth # "none" <=> out.synthesized)
             /\ speak' = [status |-> IF out.kind \in {"audioBuffer", "useWebSpeech"}
                                     THEN 200 ELSE 500,
                          kind |-> out.kind, given |-> text, handed |-> handed,
                          fetched |-> out.fetched, synthesized |-> out.synthesized,
                          threw |-> out.threw, fetch |-> fetch.kind]
             /\ quotaInfo' = out.cache
             /\ UNCHANGED <<apiKey, apiKeyAlt, now>>
             /\ UNCHANGED mailVars
             /\ UNCHANGED inFlight

\* GET /api/voice/quota
GetQuota(fetch) ==
    LET check == CheckQuotaStatus(apiKey, quotaInfo, now, fetch)
    IN  /\ (fetch.kind # "none" <=> check.fetched)
        /\ speak' = [status |-> 200,
                     kind |-> IF check.quota = NoQuota THEN "unavailable" ELSE "quota",
                     given |-> [kind |-> "missing", len |-> 0], handed |-> 0,
                     fetched |-> check.fetched, synthesized |-> FALSE, threw |-> FALSE,
                     fetch |-> fetch.kind]
        /\ quotaInfo' = check.cache
        /\ UNCHANGED <<apiKey, apiKeyAlt, now>>
        /\ UNCHANGED mailVars
        /\ UNCHANGED inFlight

Tick ==
    /\ now < MaxTime
    /\ now' = now + 1
    /\ UNCHANGED <<apiKey, apiKeyAlt, quotaInfo, speak>>
    /\ UNCHANGED mailVars
    /\ UNCHANGED inFlight

(***************************************************************************)
(* Interleaved requests.  A handler runs without interruption up to an     *)
(* await on I/O; another handler may run before it resumes.  A speak       *)
(* request is suspended at the two awaits of checkQuotaStatus (the fetch,  *)
(* then response.json()), a webhook delivery between the answer of         *)
(* getEmailByMessageId and the insert of createEmail.                      *)
(***************************************************************************)
MaxCalls == 2
MaxDeliveries == 2

\* a call: where it stands, its text while it is suspended, the response of
\* its fetch and the value its checkQuotaStatus returned
IdleCall ==
    [pc |-> "idle", given |-> [kind |-> "missing", len |-> 0], handed |-> 0,
     data |-> [kind |-> "none"], quota |-> NoQuota]

IdleDelivery == [pc |-> "idle", body |-> EmptyObj]

\* this.quotaInfo after the assignment: the fields of one response, updated in place
AssignQuotaInPlace(cache, data, t) ==
    IF cache = NoQuota
    THEN CheckQuotaStatus(TRUE, NoQuota, t, data).cache
    ELSE [cache EXCEPT !.charactersUsed = data.character_count, !.lastChecked = t]

\* this.quotaInfo after the assignment: a new object built from one response,
\* whatever the cache held
AssignQuota(cache, data, t) == CheckQuotaStatus(TRUE, NoQuota, t, data).cache

\* the request of call c ends: the answer and the calls it made
SpeakEnd(c, given, handed, check, data, fetchKind, synth) ==
    LET out == WithFallback(handed, check, GenerateSpeech(apiKey, apiKeyAlt, synth))
    IN  /\ (synth # "none" <=> out.synthesized)
        /\ speak' = [status |-> 200, kind |-> out.kind, given |-> given,
                     handed |-> handed, fetched |-> out.fetched,
                     synthesized |-> out.synthesized, threw |-> out.threw,
                     fetch |-> fetchKind]
        /\ calls' = [calls EXCEPT ![c] = [IdleCall EXCEPT !.pc = "done", !.data = data,
                                                             !.quota = check.quota]]

\* POST /api/voice/speak up to the first await on the provider
SpeakBegin(c, text, synth) ==
    /\ calls[c].pc \in {"idle", "done"}
    /\ IF text.kind # "string" \/ text.len = 0
       THEN /\ synth = "none"
            /\ speak' = [status |-> 400, kind |-> "error", given |-> text, handed |-> 0,
                         fetched |-> FALSE, synthesized |-> FALSE, threw |-> FALSE,
                         fetch |-> "none"]
            /\ calls' = [calls EXCEPT ![c] = [IdleCall EXCEPT !.pc = "done"]]
       ELSE LET handed == Truncate(text.len)
                check  == CheckQuotaStatus(apiKey, quotaInfo, now, [kind |-> "none"])
            IN  IF check.fetched
                THEN /\ synth = "none"
                     /\ calls' = [calls EXCEPT ![c] = [pc |-> "fetch", given |-> text,
                                                       handed |-> handed,
                                                       data |-> [kind |-> "none"],
                                                       quota |-> NoQuota]]
                     /\ UNCHANGED speak
                ELSE SpeakEnd(c, text, handed, check, [kind |-> "none"], "none", synth)
    /\ UNCHANGED <<apiKey, apiKeyAlt, quotaInfo, now>>
    /\ UNCHANGED mailVars
    /\ UNCHANGED <<deliveries, loops>>

\* the fetch of call c settles
FetchReturn(c, fetch) ==
    /\ calls[c].pc = "fetch"
    /\ fetch.kind # "none"
    /\ IF fetch.kind = "ok"
       THEN /\ calls' = [calls EXCEPT ![c].pc = "json", ![c].data = fetch]
            /\ UNCHANGED speak
       ELSE SpeakEnd(c, calls[c].given, calls[c].handed,
                     [quota |-> NoQuota, cache |-> quotaInfo, fetched |-> TRUE],
                     [kind |-> "none"], fetch.kind, "none")
    /\ UNCHANGED <<apiKey, apiKeyAlt, quotaInfo, now>>
    /\ UNCHANGED mailVars
    /\ UNCHANGED <<deliveries, loops>>

\* response.json() of call c settles; parsed is whether the body was JSON
JsonReturn(c, parsed, synth) ==
    /\ calls[c].pc = "json"
    /\ IF parsed
       THEN LET fresh == AssignQuota(quotaInfo, calls[c].data, now)
            IN  /\ quotaInfo' = fresh
                /\ SpeakEnd(c, calls[c].given, calls[c].handed,
                            [quota |-> fresh, cache |-> fresh, fetched |-> TRUE],
                            calls[c].data, "ok", synth)
       ELSE /\ UNCHANGED quotaInfo
            /\ SpeakEnd(c, calls[c].given, calls[c].handed,
                        [quota |-> NoQuota, cache |-> quotaInfo, fetched |-> TRUE],
                        [kind |-> "none"], "throw", "none")
    /\ UNCHANGED <<apiKey, apiKeyAlt, now>>
    /\ UNCHANGED mailVars
    /\ UNCHANGED <<deliveries, loops>>

\* POST /api/webhooks/postmark up to the answer of getEmailByMessageId
WebhookBegin(d, webhookData) ==
    /\ deliveries[d].pc = "idle"
    /\ req' = Request("webhook", [MessageID |-> Opt(webhookData, "MessageID"),
                                   body |-> webhookData])
    /\ IF ~ValidatePostmarkWebhook(webhookData)
       THEN /\ res' = Reply(400, "Invalid webhook data")
            /\ UNCHANGED <<deliveries, loops>>
       ELSE IF GetEmailByMessageId(emails, ProcessPostmarkWebhook(webhookData).messageId) # 0
       THEN /\ res' = Reply(200, "Email already processed")
            /\ UNCHANGED <<deliveries, loops>>
       ELSE /\ deliveries' = [deliveries EXCEPT ![d] = [pc |-> "insert", body |-> webhookData]]
            /\ UNCHANGED res
    /\ UNCHANGED <<emails, currentEmailId, voiceCommands>>
    /\ UNCHANGED voiceVars
    /\ UNCHANGED <<calls, loops>>

\* createEmail of delivery d: the insert fails on the unique constraint of
\* message_id, the route's catch answers 500; the serial is consumed either way
WebhookInsert(maxEmails, d) ==
    /\ deliveries[d].pc = "insert"
    /\ currentEmailId <= maxEmails
    /\ LET webhookData    == deliveries[d].body
           processedEmail == ProcessPostmarkWebhook(webhookData)
       IN  /\ req' = Request("webhook", [MessageID |-> Opt(webhookData, "MessageID"),
                                          body |-> webhookData])
           /\ IF GetEmailByMessageId(emails, processedEmail.messageId) # 0
              THEN /\ res' = Reply(500, "Failed to process webhook")
                   /\ UNCHANGED emails
              ELSE /\ emails' = CreateEmail(emails, currentEmailId, EmailData(processedEmail))
                   /\ res' = [Reply(200, "Email processed successfully")
                                EXCEPT !.emailId = currentEmailId]
    /\ currentEmailId' = currentEmailId + 1
    /\ deliveries' = [deliveries EXCEPT ![d] = IdleDelivery]
    /\ UNCHANGED voiceCommands
    /\ UNCHANGED voiceVars
    /\ UNCHANGED <<calls, loops>>

\* a bulk command between two awaits of its loop: the rows it read that are
\* still to update, and the ids whose update matched no row
MaxLoops == 2

IdleLoop == [pc |-> "idle", transcript |-> <<>>, intent |-> EmptyObj, rows |-> <<>>,
             count |-> 0, missed |-> {}]

\* the rows the all branch of a bulk action reads, the update it applies to each
\* and the summary it ends with
BulkPlan(action, store) ==
    CASE action \in {"restore_emails", "unarchive_emails"} ->
            [rows    |-> GetEmails(store, [isDeleted |-> TRUE]),
             updates |-> [isDeleted |-> FALSE], summary |-> "restored_all"]
      [] action = "archive_emails" ->
            [rows    |-> GetEmails(store, [isDeleted |-> FALSE]),
             updates |-> [isDeleted |-> TRUE], summary |-> "archived_all"]

\* res.json(result) of bulk command k after the last update of its loop
BulkEnd(k, transcript, intent, count) ==
    /\ req' = Request("command", [transcript |-> transcript, intent |-> intent])
    /\ res' = [Reply(200, BulkPlan(intent.action, emails).summary)
                 EXCEPT !.count = count, !.writes = count]

\* POST /api/voice/command of a bulk action with all, up to the first await of
\* its loop: the command is logged and the rows are read
BulkBegin(maxLog, k, transcript, raw) ==
    LET intent == ProcessVoiceCommand(raw)
        plan   == BulkPlan(intent.action, emails)
    IN  /\ loops[k].pc = "idle"
        /\ Len(voiceCommands) < maxLog
        /\ voiceCommands' = Append(voiceCommands, CommandData(transcript, intent))
        /\ IF plan.rows = <<>>
           THEN /\ BulkEnd(k, transcript, intent, 0)
                /\ UNCHANGED loops
           ELSE /\ loops' = [loops EXCEPT ![k] = [pc |-> "loop", transcript |-> transcript,
                                                  intent |-> intent,
                                                  rows |-> plan.rows,
                                                  count |-> Len(plan.rows),
                                                  missed |-> {}]]
                /\ UNCHANGED <<req, res>>
        /\ UNCHANGED <<emails, currentEmailId>>
        /\ UNCHANGED voiceVars
        /\ UNCHANGED <<calls, deliveries>>

\* await storage.updateEmail(email.id, updates) of bulk command k, and the answer
\* after the last one
BulkUpdate(k) ==
    LET id   == Head(loops[k].rows)
        plan == BulkPlan(loops[k].intent.action, emails)
    IN  /\ loops[k].pc = "loop"
        /\ emails' = UpdateEmail(emails, id, plan.updates)
        /\ IF Tail(loops[k].rows) = <<>>
           THEN /\ BulkEnd(k, loops[k].transcript, loops[k].intent, loops[k].count)
                /\ loops' = [loops EXCEPT ![k] =
                               [IdleLoop EXCEPT !.pc = "done",
                                                !.missed = loops[k].missed
                                                             \cup ({id} \ Ids(emails))]]
           ELSE /\ loops' = [loops EXCEPT ![k].rows = Tail(@),
                                          ![k].missed = @ \cup ({id} \ Ids(emails))]
                /\ UNCHANGED <<req, res>>
        /\ UNCHANGED <<currentEmailId, voiceCommands>>
        /\ UNCHANGED voiceVars
        /\ UNCHANGED <<calls, deliveries>>

(***************************************************************************)
(* Inputs                                                                  *)
(***************************************************************************)
MailA   == [MessageID |-> "m1", From |-> <<"a">>, FromName |-> <<"A">>, To |-> <<"u">>,
            Subject |-> <<"A">>, TextBody |-> <<"a">>, Date |-> <<"d">>]
MailB   == [MessageID |-> "m2", From |-> <<"b">>, To |-> <<"u">>,
            Subject |-> <<"B">>, Date |-> <<"d">>]
MailDup == [MessageID |-> "m1", From |-> <<"b">>, To |-> <<"u">>,
            Subject |-> <<"b">>, TextBody |-> <<"b">>, Date |-> <<"d">>]
MailFwd == [MessageID |-> "m3", From |-> <<"b">>, FromName |-> <<"B">>, To |-> <<"u">>,
            Subject |-> <<"b">>, Date |-> <<"d">>,
            TextBody |-> <<"#", "F:", "A", " ", "<", "E", ">", "/", "S:", "a", "/">>]
MailBad == [MessageID |-> "m2", From |-> <<"b">>, To |-> <<"u">>, Date |-> <<"d">>]

Payloads == {MailA, MailB, MailDup, MailFwd, MailBad}

\* forwarded bodies: a delimiter and no header line, a From: line holding a blank,
\* To: and Date: lines only
MailFwdBare  == [MessageID |-> "m4", From |-> <<"b">>, To |-> <<"u">>,
                 Subject |-> <<"b">>, Date |-> <<"d">>, TextBody |-> <<"#", "a", "/">>]
MailFwdBlank == [MessageID |-> "m5", From |-> <<"b">>, FromName |-> <<"B">>, To |-> <<"u">>,
                 Subject |-> <<"b">>, Date |-> <<"d">>,
                 TextBody |-> <<"#", "F:", " ", "/">>]
MailFwdTo    == [MessageID |-> "m6", From |-> <<"b">>, To |-> <<"u">>,
                 Subject |-> <<"b">>, Date |-> <<"d">>,
                 TextBody |-> <<"#", "T:", "E", "/", "D:", "d", "/">>]
MailHeaders  == [MessageID |-> "m7", From |-> <<"b">>, To |-> <<"u">>,
                 Subject |-> <<"b">>, Date |-> <<"d">>,
                 TextBody |-> <<"F:", "A", "/", "S:", "a", "/">>]

\* an email whose sender name, not its address, holds the letter a
MailByName == [MessageID |-> "m8", From |-> <<"b">>, FromName |-> <<"A">>, To |-> <<"u">>,
               Subject |-> <<"b">>, Date |-> <<"d">>]

\* bodies lacking one of MessageID, From, To, Subject and Date
InvalidPayloads ==
    {[k \in DOMAIN MailB \ {lacking} |-> MailB[k]] :
        lacking \in {"MessageID", "From", "To", "Subject", "Date"}}

IngestPayloads ==
    {MailA, MailB, MailFwd, MailBad, MailFwdBare, MailFwdBlank, MailFwdTo, MailHeaders}

Actions ==
    {"read_emails", "get_unread", "get_read", "search_emails", "mark_as_read",
     "mark_unread", "delete_emails", "mark_important", "remove_important",
     "archive_emails", "restore_emails", "unarchive_emails", "get_important",
     "get_recent", "get_archived", "permanently_delete", "compose_email",
     "reply_email", "forward_email", "switch_tab", "unknown"}

Id(n) == [isNumber |-> TRUE, v |-> n]

Raw(a, p) ==
    [throws |-> FALSE,
     json   |-> [action |-> a, parameters |-> p, confidence |-> Hundredths(90)]]

\* provider results whose confidence is 1.7, -0.3, 0 and "high"
Confidences == {Hundredths(170), Hundredths(-30), Hundredths(0), NaN}

RawWithConfidence(a, c) == [throws |-> FALSE, json |-> [action |-> a, confidence |-> c]]

\* provider results with parameters whose confidence is 0.857, 0.004, 1.7, -0.3 and "high"
LoggedConfidences == {Thousandths(857), Thousandths(4), Hundredths(170), Hundredths(-30), NaN}

RawAt(a, p, c) ==
    [throws |-> FALSE, json |-> [action |-> a, parameters |-> p, confidence |-> c]]

ProviderDown == [throws |-> TRUE, json |-> EmptyObj]

Transcript == <<"t">>
BadTranscripts == {<<>>, NULL, NotAString}

ArchiveActions ==
    {"delete_emails", "archive_emails", "restore_emails", "unarchive_emails",
     "permanently_delete"}

ReadActions == {"read_emails", "get_unread", "get_read"}

\* an action name that is not in the enumeration of VoiceCommandIntent
UnlistedAction == "summarize_inbox"

MarkActions == {"mark_as_read", "mark_unread", "mark_important", "remove_important"}

ParameterBags ==
    {EmptyObj, [all |-> TRUE], [all |-> FALSE, query |-> <<>>],
     [query |-> <<"a">>], [sender |-> <<"B">>], [emailId |-> Id(1)]}

Texts ==
    {[kind |-> "missing", len |-> 0], [kind |-> "blank", len |-> 0]}
    \cup {[kind |-> "string", len |-> n] : n \in {1, 10, 50, MAX_LENGTH, MAX_LENGTH + 1}}

Fetches ==
    {[kind |-> "none"], [kind |-> "throw"], [kind |-> "notok"]}
    \cup {[kind |-> "ok", character_count |-> c, character_limit |-> l] :
            c \in {0, 9945, 9990, 10000}, l \in {0, 10000}}

Synths == {"none", "ok", "fail"}

\* the texts of at most ten characters, and the provider down or with a full quota
ShortTexts == {x \in Texts : x.len <= 10}

FewFetches == {f \in Fetches : f.kind \in {"none", "throw"}}
                \cup {[kind |-> "ok", character_count |-> 0, character_limit |-> 10000]}

(***************************************************************************)
(* Specifications                                                          *)
(***************************************************************************)
EmptyStore == [i \in {} |-> NULL]

InitMail ==
    /\ emails = EmptyStore
    /\ currentEmailId = 1
    /\ voiceCommands = <<>>
    /\ req = Request("none", EmptyObj)
    /\ res = Reply(0, "")

InitSpeak ==
    [status |-> 0, kind |-> "none", given |-> [kind |-> "missing", len |-> 0],
     handed |-> 0, fetched |-> FALSE, synthesized |-> FALSE, threw |-> FALSE,
     fetch |-> "none"]

InitInFlight ==
    /\ calls = [c \in 1..MaxCalls |-> IdleCall]
    /\ deliveries = [d \in 1..MaxDeliveries |-> IdleDelivery]
    /\ loops = [k \in 1..MaxLoops |-> IdleLoop]

Init ==
    /\ InitMail
    /\ apiKey = FALSE
    /\ apiKeyAlt = FALSE
    /\ quotaInfo = NoQuota
    /\ now = 0
    /\ speak = InitSpeak
    /\ InitInFlight

\* the requests of the mailbox routes, over the given inputs
MailNext(maxEmails, maxLog, payloads, updates, raws) ==
    \/ \E w \in payloads : Webhook(maxEmails, w)
    \/ \E id \in 1..maxEmails, u \in updates : PutEmail(id, u)
    \/ \E id \in 1..maxEmails : RemoveEmail(id)
    \/ \E t \in BadTranscripts : VoiceCommand(maxLog, t, ProviderDown, 0)
    \/ \E raw \in raws, fail \in 0..maxEmails : VoiceCommand(maxLog, Transcript, raw, fail)

\* archiving, restoring and permanent deletion
Next ==
    MailNext(MaxEmails, MaxLog, Payloads, {[isDeleted |-> TRUE]},
             {Raw(a, p) : a \in ArchiveActions, p \in ParameterBags})

Spec == Init /\ [][Next]_vars

\* marking read, unread and important
NextMark ==
    MailNext(MaxEmails, MaxLog, {MailA, MailB, MailBad},
             {[isRead |-> TRUE], [isImportant |-> TRUE], [isDeleted |-> TRUE]},
             {Raw(a, p) : a \in MarkActions, p \in {EmptyObj, [all |-> TRUE], [emailId |-> Id(1)]}})

SpecMark == Init /\ [][NextMark]_vars

\* every action of the dispatcher
NextAll ==
    MailNext(MaxEmailsAll, MaxLog, {MailA, MailB, MailBad},
             {[isImportant |-> TRUE], [isDeleted |-> TRUE]},
             {Raw(a, p) : a \in Actions, p \in {EmptyObj, [all |-> TRUE], [query |-> <<"a">>]}}
               \cup {ProviderDown, [throws |-> FALSE, json |-> EmptyObj]})

SpecAll == Init /\ [][NextAll]_vars

\* reading the inbox, the unread and the read emails, at every confidence, and an
\* action the provider made up
NextRead ==
    MailNext(MaxEmails, MaxLog, {MailA, MailB, MailBad},
             {[isRead |-> TRUE], [isDeleted |-> TRUE]},
             {Raw(a, EmptyObj) : a \in ReadActions \cup {UnlistedAction}}
               \cup {RawWithConfidence("get_unread", c) : c \in Confidences})

SpecRead == Init /\ [][NextRead]_vars

\* ingestion of plain and forwarded emails
NextIngest ==
    \/ \E w \in IngestPayloads : Webhook(MaxEmails, w)
    \/ \E id \in 1..MaxEmails : RemoveEmail(id)

SpecIngest == Init /\ [][NextIngest]_vars

\* archive everything, then restore everything
NextArchive ==
    MailNext(MaxEmails, MaxCommands, {MailA, MailB, MailBad}, {[isDeleted |-> TRUE]},
             {Raw(a, [all |-> TRUE]) : a \in {"archive_emails", "restore_emails"}})

SpecArchive == Init /\ [][NextArchive]_vars

\* restoring the archived emails of a sender
SenderBags ==
    {[sender |-> <<"B">>], [sender |-> <<"a">>], [sender |-> <<>>],
     [sender |-> <<"B">>, query |-> <<"a">>], [sender |-> <<"a">>, all |-> TRUE]}

NextRestore ==
    MailNext(MaxEmails, MaxLog, {MailA, MailB, MailByName, MailBad}, {[isDeleted |-> TRUE]},
             {Raw(a, p) : a \in {"restore_emails", "unarchive_emails"}, p \in SenderBags})

SpecRestore == Init /\ [][NextRestore]_vars

\* a mailbox of more than ten emails, asked for the recent ones
MaxInbox == 11

Numbered(n) == [MailB EXCEPT !.MessageID = "n" \o ToString(n)]

TimeframeBags ==
    {EmptyObj, [timeframe |-> <<>>], [timeframe |-> <<"t">>], [timeframe |-> <<"w">>]}

NextRecent ==
    \/ Webhook(MaxInbox, Numbered(currentEmailId))
    \/ \E id \in {1, 2, MaxInbox - 1, MaxInbox} :
          id \in Ids(emails) /\ PutEmail(id, [isDeleted |-> TRUE])
    \/ \E p \in TimeframeBags : VoiceCommand(MaxLog, Transcript, Raw("get_recent", p), 0)

SpecRecent == Init /\ [][NextRecent]_vars

\* the stubs, the tab switch and the actions the switch does not handle
StubActions ==
    {"compose_email", "reply_email", "forward_email", "switch_tab", "unknown",
     UnlistedAction}

TabBags == {EmptyObj, [tab |-> "archived"], [tab |-> ""], [all |-> TRUE]}

NextStubs ==
    MailNext(MaxEmails, MaxLog, {MailA, MailB, MailBad}, {[isDeleted |-> TRUE]},
             {Raw(a, p) : a \in StubActions, p \in TabBags}
               \cup {ProviderDown, [throws |-> FALSE, json |-> EmptyObj]})

SpecStubs == Init /\ [][NextStubs]_vars

\* a mailbox of more than five emails and the seven lookups
MaxShelf == 6

LookupActions ==
    {"read_emails", "get_unread", "get_read", "search_emails", "get_important",
     "get_recent", "get_archived"}

NextLookup ==
    \/ Webhook(MaxShelf, Numbered(currentEmailId))
    \/ \E id \in {1, MaxShelf}, u \in {[isRead |-> TRUE], [isImportant |-> TRUE],
                                       [isDeleted |-> TRUE]} :
          id \in Ids(emails) /\ PutEmail(id, u)
    \/ \E a \in LookupActions, p \in {EmptyObj, [query |-> <<"b">>], [sender |-> <<"B">>]} :
          VoiceCommand(MaxLog, Transcript, Raw(a, p), 0)

SpecLookup == Init /\ [][NextLookup]_vars

\* every action that writes, over emails carrying any of the three flags
WritingActions ==
    {"mark_as_read", "mark_unread", "mark_important", "remove_important",
     "archive_emails", "delete_emails", "restore_emails", "unarchive_emails",
     "permanently_delete"}

NextFlags ==
    \/ \E w \in {MailA, MailB} : Webhook(MaxEmails, w)
    \/ \E id \in 1..MaxEmails, u \in {[isRead |-> TRUE], [isImportant |-> TRUE],
                                        [isDeleted |-> TRUE]} :
          id \in Ids(emails) /\ PutEmail(id, u)
    \/ \E a \in WritingActions, p \in {EmptyObj, [all |-> TRUE], [emailId |-> Id(1)]},
          fail \in 0..1 :
          VoiceCommand(MaxLog, Transcript, Raw(a, p), fail)

SpecFlags == Init /\ [][NextFlags]_vars

\* bulk commands whose loops interleave with each other and with deletions
NextLoops ==
    \/ Webhook(MaxEmails, Numbered(currentEmailId))
    \/ \E id \in 1..MaxEmails : RemoveEmail(id)
    \/ VoiceCommand(MaxCommands, Transcript, Raw("permanently_delete", [all |-> TRUE]), 0)
    \/ \E k \in 1..MaxLoops, a \in {"restore_emails", "archive_emails"} :
          BulkBegin(MaxCommands, k, Transcript, Raw(a, [all |-> TRUE]))
    \/ \E k \in 1..MaxLoops : BulkUpdate(k)

SpecLoops == Init /\ [][NextLoops]_vars

\* the actions that take one email by its id, and the ids they are given:
\* the number 0, the number 1 and the string "1"
TargetActions == {"mark_as_read", "mark_unread", "mark_important", "remove_important",
                  "delete_emails"}

TargetIds == {Id(0), Id(1), [isNumber |-> FALSE, v |-> 1]}

NextTarget ==
    \/ \E w \in {MailA, MailB} : Webhook(MaxEmails, w)
    \/ \E id \in 1..MaxEmails : RemoveEmail(id)
    \/ \E a \in TargetActions, i \in TargetIds :
          VoiceCommand(MaxLog, Transcript, Raw(a, [emailId |-> i]), 0)

SpecTarget == Init /\ [][NextTarget]_vars

\* commands at every confidence whose dispatch writes, fails or does nothing
NextLogged ==
    \/ \E w \in {MailA, MailB} : Webhook(MaxEmails, w)
    \/ VoiceCommand(MaxLog, Transcript, ProviderDown, 0)
    \/ \E a \in {"archive_emails", "unknown", UnlistedAction}, c \in LoggedConfidences,
          fail \in 0..1 :
          VoiceCommand(MaxLog, Transcript, RawAt(a, [all |-> TRUE], c), fail)

SpecLogged == Init /\ [][NextLogged]_vars

\* valid and invalid requests of the three validating routes
NextValidation ==
    \/ \E w \in {MailA, MailB} \cup InvalidPayloads : Webhook(MaxEmails, w)
    \/ \E t \in BadTranscripts \cup {Transcript} :
          VoiceCommand(MaxLog, t, Raw("archive_emails", [all |-> TRUE]), 0)
    \/ \E x \in ShortTexts, f \in FewFetches, s \in Synths : Speak(x, f, s)

InitVoice ==
    /\ InitMail
    /\ apiKey \in BOOLEAN
    /\ apiKeyAlt \in BOOLEAN
    /\ quotaInfo = NoQuota
    /\ now = 0
    /\ speak = InitSpeak
    /\ InitInFlight

NextVoice ==
    \/ \E x \in Texts, f \in Fetches, s \in Synths : Speak(x, f, s)
    \/ \E f \in Fetches : GetQuota(f)
    \/ Tick

SpecVoice == InitVoice /\ [][NextVoice]_vars

SpecValidation == InitVoice /\ [][NextValidation]_vars

\* speak requests within one freshness window, on a quota a few calls exhaust
WindowTexts == {[kind |-> "string", len |-> n] : n \in {10, 50}}

WindowFetches ==
    {[kind |-> "none"], [kind |-> "throw"]}
    \cup {[kind |-> "ok", character_count |-> c, character_limit |-> 10000] :
            c \in {9940, 9945, 9985}}

NextWindow ==
    \/ \E x \in WindowTexts, f \in WindowFetches, s \in Synths : Speak(x, f, s)
    \/ \E f \in WindowFetches : GetQuota(f)
    \/ Tick

SpecWindow == InitVoice /\ [][NextWindow]_vars

\* speak requests that interleave at the awaits of the quota check
RaceTexts == {x \in Texts : x.kind = "blank" \/ x.len = 10}

RaceFetches ==
    {f \in Fetches : f.kind # "ok" \/ (f.character_count \in {0, 9990} /\ f.character_limit = 10000)}

NextRace ==
    \/ \E c \in 1..MaxCalls, x \in RaceTexts, s \in {"none", "ok"} : SpeakBegin(c, x, s)
    \/ \E c \in 1..MaxCalls, f \in RaceFetches : FetchReturn(c, f)
    \/ \E c \in 1..MaxCalls, parsed \in BOOLEAN, s \in {"none", "ok"} : JsonReturn(c, parsed, s)
    \/ Tick

SpecRace == InitVoice /\ [][NextRace]_vars

\* webhook deliveries that interleave between the check and the insert
NextDeliveries ==
    \/ \E d \in 1..MaxDeliveries, w \in {MailA, MailB, MailBad} : WebhookBegin(d, w)
    \/ \E d \in 1..MaxDeliveries : WebhookInsert(MaxEmails + MaxDeliveries, d)
    \/ \E id \in 1..MaxEmails + MaxDeliveries : RemoveEmail(id)

SpecDeliveries == Init /\ [][NextDeliveries]_vars

(***************************************************************************)
(* Properties                                                              *)
(***************************************************************************)
MessageIds(store) == {store[i].messageId : i \in Ids(store)}

Archived(store) == {i \in Ids(store) : store[i].isDeleted}

\* the step answers a voice command that reached the dispatcher with one of the actions
CommandStep(actions) ==
    /\ req'.route = "command"
    /\ Has(req'.input, "intent")
    /\ req'.input.intent.confidence.isNumber
    /\ req'.input.intent.action \in actions

\* the last request answered is a voice command with the action and the parameters
Answered(action, parameters) ==
    /\ req.route = "command"
    /\ Has(req.input, "intent")
    /\ req.input.intent.confidence.isNumber
    /\ req.input.intent.action = action
    /\ Parameters(req.input.intent) = parameters

\* case-insensitive containment in a column that may be NULL
ContainsTerm(text, term) == text # NULL /\ Includes(ToLowerCase(text), ToLowerCase(term))

OneEmailPerMessageId ==
    \A i, j \in Ids(emails) : emails[i].messageId = emails[j].messageId => i = j

\* a webhook request that is not rejected as malformed: a stored MessageID is a
\* no-op answered 200, a new one adds exactly one email and changes no other
IngestStep ==
    (req'.route = "webhook" /\ res'.status # 400) =>
        LET m == req'.input.MessageID
        IN  IF m \in MessageIds(emails)
            THEN /\ emails' = emails
                 /\ res'.status = 200
                 /\ res'.emailId = 0
            ELSE /\ res'.status = 200
                 /\ res'.emailId \notin Ids(emails)
                 /\ Ids(emails') = Ids(emails) \cup {res'.emailId}
                 /\ emails'[res'.emailId].messageId = m
                 /\ \A i \in Ids(emails) : emails'[i] = emails[i]

RejectedStep == (req'.route = "webhook" /\ res'.status = 400) => emails' = emails

\* C1: over webhook requests handled one after another the store never holds two
\* emails with the same MessageID; a well-formed request whose MessageID is already
\* stored creates no email, changes no stored email and is answered 200, and one
\* whose MessageID is new adds exactly one email.
C1_IdempotentIngest == []OneEmailPerMessageId /\ [][IngestStep /\ RejectedStep]_vars

\* a duplicate has been answered while the email of its MessageID is stored
C1_DuplicateAnswered ==
    /\ req.route = "webhook"
    /\ res.status = 200
    /\ res.summary = "Email already processed"
    /\ req.input.MessageID \in MessageIds(emails)

ArchiveAllIntent == ProcessVoiceCommand(Raw("archive_emails", [all |-> TRUE]))

RestoreAllIntent == ProcessVoiceCommand(Raw("restore_emails", [all |-> TRUE]))

\* C2 (as amended): when archive_emails{all:true} has run and restore_emails{all:true}
\* runs next, every email the archive step changed ends with isDeleted=false, and the
\* number restored is the number archived by the first step plus the number of emails
\* that were already archived before it (equal when there was none).
C2_ArchiveThenRestore ==
    [][(CommandStep({"archive_emails"}) /\ req'.input.intent = ArchiveAllIntent
          /\ res'.status = 200) =>
        LET r == Dispatch(RestoreAllIntent, emails', 0)
        IN  /\ \A i \in Ids(emails) : emails'[i] # emails[i] => ~r.emails[i].isDeleted
            /\ r.count = res'.count + Cardinality(Archived(emails))]_vars

\* C2 (as stated): the number restored equals the number archived by the first step
C2_RestoredEqualsArchived ==
    [][(CommandStep({"archive_emails"}) /\ req'.input.intent = ArchiveAllIntent
          /\ res'.status = 200) =>
        LET r == Dispatch(RestoreAllIntent, emails', 0)
        IN  /\ \A i \in Ids(emails) : emails'[i] # emails[i] => ~r.emails[i].isDeleted
            /\ r.count = res'.count]_vars

\* restore-all has been answered right after archive-all, with every email restored
C2_Restored ==
    /\ Answered("restore_emails", [all |-> TRUE])
    /\ res.status = 200
    /\ res.count = 2
    /\ Len(voiceCommands) >= 2
    /\ voiceCommands[Len(voiceCommands) - 1].intent = "archive_emails"
    /\ voiceCommands[Len(voiceCommands)].intent = "restore_emails"
    /\ \A i \in Ids(emails) : ~emails[i].isDeleted

\* C3: permanently_delete removes only emails that are archived when it reads the
\* store: with all every archived email, with a query the archived emails whose
\* subject or body contains the term; every email that is not archived is still
\* stored, unchanged, and returned by a read of the mailbox afterwards.
C3_PermanentDeleteScoped ==
    [][CommandStep({"permanently_delete"}) =>
        LET p        == Parameters(req'.input.intent)
            kept     == Ids(emails) \ Archived(emails)
            removed  == Ids(emails) \ Ids(emails')
            targeted == IF TruthyBool(p, "all") THEN Archived(emails)
                        ELSE IF TruthyStr(p, "query")
                        THEN {i \in Archived(emails) :
                                \/ ContainsTerm(emails[i].subject, p.query)
                                \/ ContainsTerm(emails[i].textContent, p.query)}
                        ELSE {}
            inbox    == GetEmails(emails', [isDeleted |-> FALSE])
        IN  /\ Ids(emails') \subseteq Ids(emails)
            /\ removed \subseteq targeted
            /\ res'.status = 200 => removed = targeted
            /\ \A i \in kept : i \in Ids(emails') /\ emails'[i] = emails[i]
            /\ \A i \in kept : \E k \in DOMAIN inbox : inbox[k] = i]_vars

\* archived emails have been permanently deleted while an email that was not
\* archived is still stored
C3_PurgedBesideKept ==
    /\ Answered("permanently_delete", [all |-> TRUE])
    /\ res.status = 200
    /\ res.count >= 1
    /\ \E i \in Ids(emails) : ~emails[i].isDeleted

BulkActions ==
    {"mark_as_read", "mark_unread", "mark_important", "remove_important",
     "archive_emails", "delete_emails", "restore_emails", "unarchive_emails",
     "permanently_delete"}

\* the emails of the store before the step that the step changed or removed
Touched == {i \in Ids(emails) : i \notin Ids(emails') \/ emails'[i] # emails[i]}

\* C4 (as stated): whenever a bulk action states a count in its summary, the count
\* is the number of emails whose flag actually changed, or that were actually
\* removed, during the action.
C4_CountIsNumberChanged ==
    [][(CommandStep(BulkActions) /\ res'.status = 200 /\ res'.count >= 0) =>
        res'.count = Cardinality(Touched)]_vars

\* the parameters select the query branch of restore_emails
ByQuery(p) == ~TruthyBool(p, "all") /\ ~TruthyStr(p, "sender") /\ TruthyStr(p, "query")

\* the archived emails of the store that match the term in subject, sender or body
ArchivedMatching(store, term) ==
    {i \in Archived(store) :
        \/ ContainsTerm(store[i].subject, term)
        \/ ContainsTerm(store[i].fromEmail, term)
        \/ ContainsTerm(store[i].fromName, term)
        \/ ContainsTerm(store[i].textContent, term)}

\* C5: restore_emails{query:X} removes no email and changes only isDeleted, to false,
\* and only on emails that are archived and match X when it runs; when no archived
\* email matches X the store is unchanged and the count restored is zero, even if
\* emails that are not archived match X.
C5_RestoreByQueryScoped ==
    [][(CommandStep({"restore_emails", "unarchive_emails"})
          /\ ByQuery(Parameters(req'.input.intent))) =>
        LET matching == ArchivedMatching(emails, req'.input.intent.parameters.query)
        IN  /\ Ids(emails') = Ids(emails)
            /\ \A i \in Ids(emails) :
                  emails'[i] # emails[i] =>
                      /\ i \in matching
                      /\ emails'[i] = [emails[i] EXCEPT !.isDeleted = FALSE]
            /\ matching = {} =>
                  /\ emails' = emails
                  /\ res'.status = 200 => res'.count = 0]_vars

\* restore by query has answered that it restored nothing while an email that is
\* not archived matches the term and no archived one does
C5_NothingRestored ==
    /\ Answered("restore_emails", [query |-> <<"a">>])
    /\ res.status = 200
    /\ res.count = 0
    /\ ArchivedMatching(emails, <<"a">>) = {}
    /\ \E i \in Ids(emails) : ~emails[i].isDeleted /\ ContainsTerm(emails[i].subject, <<"a">>)

\* C6 (as stated): after restore_emails{query:X} every email that was archived and
\* matched X has isDeleted=false, and the summary counts them.
C6_RestoreByQueryRestores ==
    [][(CommandStep({"restore_emails", "unarchive_emails"})
          /\ ByQuery(Parameters(req'.input.intent)) /\ res'.status = 200) =>
        LET matching == ArchivedMatching(emails, req'.input.intent.parameters.query)
        IN  /\ \A i \in matching : ~emails'[i].isDeleted
            /\ res'.count = Cardinality(matching)]_vars

\* C7 (as stated): when a store write fails in the loop of mark_as_read{all:true},
\* the updates completed before it stay applied, no later one is made, and the
\* response reports the count completed.
C7_ReportsCompletedCount ==
    [][(CommandStep({"mark_as_read"}) /\ TruthyBool(Parameters(req'.input.intent), "all")
          /\ res'.status = 500) =>
        /\ Cardinality(Touched) = res'.writes
        /\ res'.count = res'.writes]_vars

\* neither all nor a targeting parameter is given
NoTarget(p) ==
    /\ ~TruthyBool(p, "all")
    /\ ~TruthyId(p, "emailId")
    /\ ~TruthyStr(p, "query")
    /\ ~TruthyStr(p, "sender")

Clarifications ==
    {"ask_which_to_delete", "ask_which_to_archive", "ask_which_to_restore",
     "ask_which_to_permanently_delete"}

\* C8: delete_emails, archive_emails, restore_emails, unarchive_emails and
\* permanently_delete requested without all and without a targeting parameter make
\* no store write: the emails are unchanged and the result is a clarifying summary.
C8_NoTargetNoWrite ==
    [][(CommandStep(ArchiveActions) /\ NoTarget(Parameters(req'.input.intent))) =>
        /\ emails' = emails
        /\ res'.writes = 0
        /\ res'.status = 200
        /\ res'.summary \in Clarifications]_vars

\* delete_emails without a target has been answered by a clarification while an
\* email it could have archived is in the mailbox
C8_Clarified ==
    /\ Answered("delete_emails", EmptyObj)
    /\ res.summary = "ask_which_to_delete"
    /\ \E i \in Ids(emails) : ~emails[i].isDeleted

\* C9: a voice command removes a row of the store only when its action is
\* permanently_delete; delete_emails and archive_emails keep every row and change
\* nothing but isDeleted, to true.
C9_OnlyPermanentDeleteRemoves ==
    [][(req'.route = "command") =>
        /\ \/ Ids(emails) \subseteq Ids(emails')
           \/ CommandStep({"permanently_delete"})
        /\ CommandStep({"delete_emails", "archive_emails"}) =>
              /\ Ids(emails') = Ids(emails)
              /\ \A i \in Ids(emails) :
                    \/ emails'[i] = emails[i]
                    \/ emails'[i] = [emails[i] EXCEPT !.isDeleted = TRUE]]_vars

\* archive_emails{all:true} has archived an email, which is still stored
C9_ArchivedStillStored ==
    /\ Answered("archive_emails", [all |-> TRUE])
    /\ res.status = 200
    /\ res.count >= 1
    /\ Archived(emails) # {}

\* C10: with no provider credential configured no request fetches the quota or
\* calls the premium synthesis, and a speak request with a text is answered with the
\* local-synthesis directive.
C10_NoCredentialNoCall ==
    (~apiKey /\ ~apiKeyAlt) =>
        /\ ~speak.fetched
        /\ ~speak.synthesized
        /\ (speak.status = 200 /\ speak.given.kind = "string") => speak.kind = "useWebSpeech"

\* a speak request has been answered with the directive with no credential configured
C10_LocalSynthesis ==
    /\ ~apiKey /\ ~apiKeyAlt
    /\ speak.status = 200
    /\ speak.given.kind = "string"
    /\ speak.kind = "useWebSpeech"

\* the step answers a speak request (requests leave the clock alone)
SpeakStep == now' = now /\ speak'.kind \notin {"quota", "unavailable"}

\* ceil(n * 1.1) over the reals
CeilWithBuffer(n) == (11 * n + 9) \div 10

\* the manager holds a quota that is fresh: what checkQuotaStatus returned to the request
QuotaKnownAfter == quotaInfo' # NoQuota /\ now - quotaInfo'.lastChecked < QuotaCacheTime

\* C11: with ELEVENLABS_API_KEY configured, a speak request calls the premium provider
\* only if the quota is known and charactersRemaining >= ceil(text.length * 1.1) for
\* the text handed to the manager; when the quota is unknown or smaller the answer
\* is the local-synthesis directive and the provider is not called.
C11_ProviderOnlyWithinQuota ==
    [][(SpeakStep /\ apiKey /\ speak'.given.kind = "string" /\ speak'.given.len > 0) =>
        LET enough == /\ QuotaKnownAfter
                      /\ quotaInfo'.charactersRemaining >= CeilWithBuffer(speak'.handed)
        IN  /\ speak'.synthesized => enough
            /\ ~enough => (speak'.kind = "useWebSpeech" /\ ~speak'.synthesized)]_vars

\* a request was answered with the directive, without a provider call, on a quota
\* that is known, positive and too small for the text
C11_QuotaTooSmall ==
    /\ apiKey
    /\ speak.status = 200
    /\ speak.kind = "useWebSpeech"
    /\ ~speak.synthesized
    /\ quotaInfo # NoQuota
    /\ quotaInfo.lastChecked = now
    /\ quotaInfo.charactersRemaining > 0
    /\ quotaInfo.charactersRemaining < CeilWithBuffer(speak.handed)

\* C12: a speak request with a text is answered 200 with exactly one of the audio
\* payload and the local-synthesis directive, never 500; when the premium synthesis
\* was called and failed the answer is the directive.
C12_ProviderErrorNeverPropagates ==
    (speak.given.kind = "string" /\ speak.given.len > 0) =>
        /\ speak.status = 200
        /\ speak.kind \in {"audioBuffer", "useWebSpeech"}
        /\ speak.threw => speak.kind = "useWebSpeech"
        /\ speak.kind = "audioBuffer" => (speak.synthesized /\ ~speak.threw)

\* the synthesis was called on a sufficient quota, failed, and the directive was returned
C12_FailedCallFellBack ==
    /\ speak.status = 200
    /\ speak.synthesized
    /\ speak.threw
    /\ speak.kind = "useWebSpeech"

\* C13: a speak request whose text is longer than 9500 characters hands the manager
\* 9500 characters plus the truncation marker, never the text at its original length;
\* a text of 9500 characters or fewer is handed over at its own length.
C13_TruncatedBeforeSynthesis ==
    (speak.given.kind = "string" /\ speak.given.len > 0) =>
        IF speak.given.len > 9500
        THEN speak.handed = 9500 + TruncationMarkerLength /\ speak.handed # speak.given.len
        ELSE speak.handed = speak.given.len

\* a text longer than the limit has been handed over truncated
C13_LongTextTruncated ==
    /\ speak.status = 200
    /\ speak.given.len = MAX_LENGTH + 1
    /\ speak.handed = MAX_LENGTH + TruncationMarkerLength

\* the last request answered is a voice command with a valid transcript
Resolved == req.route = "command" /\ Has(req.input, "intent")

\* C14 (as stated): for every raw provider result the confidence of the resolved intent
\* is a number between 0 and 1; a raw confidence above 1 gives 1 and one below 0 gives 0.
C14_ConfidenceInRange ==
    Resolved =>
        LET c == req.input.intent.confidence
            json == req.input.provider.json
        IN  /\ c.isNumber /\ 0 <= c.v /\ c.v <= 100
            /\ (Has(json, "confidence") /\ json.confidence.isNumber) =>
                  /\ json.confidence.v > 100 => c.v = 100
                  /\ json.confidence.v < 0 => c.v = 0

\* the provider answered without an action and without a confidence
EmptyOutput(raw) ==
    ~raw.throws /\ ~Has(raw.json, "action") /\ ~Has(raw.json, "confidence")

\* C15 (as stated): when the provider call throws or its output is malformed or empty,
\* the resolved intent is action unknown with confidence 0.
C15_FailSoftUnknown ==
    (Resolved /\ (req.input.provider.throws \/ EmptyOutput(req.input.provider))) =>
        /\ req.input.intent.action = "unknown"
        /\ req.input.intent.confidence = Hundredths(0)

\* C16: a voice command with a valid transcript whose provider call fails is answered
\* 200 with intent unknown and the summary listing the capabilities, and the step
\* creates, changes and removes no email.
C16_ProviderFailureDegrades ==
    [][(req'.route = "command" /\ Has(req'.input, "intent") /\ req'.input.provider.throws) =>
        /\ res'.status = 200
        /\ req'.input.intent.action = "unknown"
        /\ res'.summary = "capabilities"
        /\ emails' = emails]_vars

\* a command whose provider call failed has been answered over a mailbox holding an
\* email that is not archived
C16_DegradedOverMailbox ==
    /\ Resolved
    /\ req.input.provider.throws
    /\ res.status = 200
    /\ res.summary = "capabilities"
    /\ \E i \in Ids(emails) : ~emails[i].isDeleted

\* the emails of the store that are unread and not archived
Unread(store) == {i \in Ids(store) : ~store[i].isRead /\ ~store[i].isDeleted}

\* C17: mark_as_read{all:true} that completes on a store with u unread emails that are
\* not archived makes exactly u updates, one per such email, each changing only isRead,
\* to true; the summary states u when u > 0 and says there is nothing to mark when
\* u = 0; afterwards every email that is not archived is read, and no other email is
\* changed.
C17_MarkAllReadExactlyUnread ==
    [][(CommandStep({"mark_as_read"}) /\ TruthyBool(Parameters(req'.input.intent), "all")
          /\ res'.status = 200) =>
        LET u == Cardinality(Unread(emails))
        IN  /\ res'.writes = u
            /\ Ids(emails') = Ids(emails)
            /\ Touched = Unread(emails)
            /\ \A i \in Unread(emails) : emails'[i] = [emails[i] EXCEPT !.isRead = TRUE]
            /\ u > 0 => (res'.summary = "marked_all_read" /\ res'.count = u)
            /\ u = 0 => res'.summary = "no_unread_to_mark"
            /\ Unread(emails') = {}]_vars

\* mark_as_read{all:true} has marked one email while an archived email stays unread
C17_OneMarkedBesideArchived ==
    /\ Answered("mark_as_read", [all |-> TRUE])
    /\ res.status = 200
    /\ res.count = 1
    /\ \E i \in Ids(emails) : emails[i].isDeleted /\ ~emails[i].isRead
    /\ \E i \in Ids(emails) : ~emails[i].isDeleted /\ emails[i].isRead

\* the emails that read_emails, get_unread or get_read is about
Readable(store, action) ==
    {i \in Ids(store) :
        /\ ~store[i].isDeleted
        /\ action = "get_unread" => ~store[i].isRead
        /\ action = "get_read" => store[i].isRead}

\* C18: read_emails, get_unread and get_read call the digest summarizer exactly when
\* the store returned at least one email; on an empty result the summary is the canned
\* message of the variant and the summarizer is not called.  The store is unchanged.
C18_SummarizerIffNonEmpty ==
    [][CommandStep(ReadActions) =>
        LET action == req'.input.intent.action
            found  == Readable(emails, action)
        IN  /\ res'.status = 200
            /\ emails' = emails
            /\ res'.summary = "digest" <=> found # {}
            /\ found # {} => {res'.list[k] : k \in 1..Len(res'.list)} = found
            /\ found = {} =>
                  /\ res'.list = <<>>
                  /\ res'.summary = CASE action = "get_unread" -> "all_caught_up"
                                      [] action = "get_read"   -> "no_read_emails"
                                      [] OTHER                 -> "inbox_empty"]_vars

\* get_unread has been answered by the canned message over a mailbox whose only
\* emails are read or archived
C18_CaughtUp ==
    /\ Answered("get_unread", EmptyObj)
    /\ res.summary = "all_caught_up"
    /\ Ids(emails) # {}

\* neither all nor a numeric emailId is given
NoAllNoId(p) == ~TruthyBool(p, "all") /\ ~(TruthyId(p, "emailId") /\ p.emailId.isNumber)

\* the emails a flag action falls back on: not archived, and important for
\* remove_important
Candidates(store, action) ==
    {i \in Ids(store) :
        /\ ~store[i].isDeleted
        /\ action = "remove_important" => store[i].isImportant}

\* the most recently received email of a non-empty set
MostRecent(store, set) ==
    CHOOSE i \in set : \A j \in set : store[j].receivedAt <= store[i].receivedAt

\* the store after the action's flag has been set on one email
Flagged(store, action, i) ==
    CASE action = "mark_as_read"     -> [store EXCEPT ![i].isRead = TRUE]
      [] action = "mark_unread"      -> [store EXCEPT ![i].isRead = FALSE]
      [] action = "mark_important"   -> [store EXCEPT ![i].isImportant = TRUE]
      [] action = "remove_important" -> [store EXCEPT ![i].isImportant = FALSE]

NothingToDo ==
    {"no_unread_to_mark", "none_to_mark_unread", "none_to_mark_important",
     "no_important_to_modify"}

\* the fallback of the flag actions, for a set of them
MostRecentFallback(actions) ==
    (CommandStep(actions) /\ NoAllNoId(Parameters(req'.input.intent))
       /\ res'.status = 200) =>
        LET action == req'.input.intent.action
            set    == Candidates(emails, action)
        IN  IF set = {}
            THEN emails' = emails /\ res'.writes = 0 /\ res'.summary \in NothingToDo
            ELSE /\ res'.writes = 1
                 /\ emails' = Flagged(emails, action, MostRecent(emails, set))

\* C19 (as stated): mark_as_read, mark_unread, mark_important and remove_important
\* without all and without a numeric emailId update exactly one email, the most
\* recently received one that is not archived (and is important, for remove_important),
\* or change nothing and say there is nothing to do when there is no such email.
C19_FallsBackOnMostRecent == [][MostRecentFallback(MarkActions)]_vars

\* the store with isDeleted set on the emails of a set
ArchivedIn(store, set) ==
    [i \in Ids(store) |-> IF i \in set THEN [store[i] EXCEPT !.isDeleted = TRUE]
                                      ELSE store[i]]

\* the ids of a list of emails
Listed(list) == {list[k] : k \in 1..Len(list)}

\* all archives every email that is not archived, else a query archives exactly the
\* emails the search returns, else nothing changes and the summary asks which emails
ArchivesAllOrQuery(actions) ==
    (CommandStep(actions) /\ res'.status = 200) =>
        LET p == Parameters(req'.input.intent)
        IN  IF TruthyBool(p, "all")
            THEN emails' = ArchivedIn(emails, Ids(emails) \ Archived(emails))
            ELSE IF TruthyStr(p, "query")
            THEN emails' = ArchivedIn(emails, Listed(SearchEmails(emails, p.query)))
            ELSE emails' = emails /\ res'.summary \in Clarifications

\* C20 (as stated): delete_emails and archive_emails behave alike: all archives every
\* email that is not archived; otherwise a query archives exactly the emails the
\* search returns for it; otherwise nothing is changed and the summary asks for
\* clarification.
C20_DeleteLikeArchive == [][ArchivesAllOrQuery({"delete_emails", "archive_emails"})]_vars

\* the step is a webhook request that stored a new email
Stored == req'.route = "webhook" /\ res'.status = 200 /\ res'.emailId # 0

\* a string that is present and not empty
Filled(v) == v # NULL /\ v # <<>>

\* C21 (as stated): an ingested email detected as forwarded keeps both identities: the
\* original sender, name and subject, where found, are its fromEmail, fromName and
\* subject, and the envelope sender and name are its actualSenderEmail and
\* actualSenderName.
C21_BothIdentitiesRetained ==
    [][(Stored /\ emails'[res'.emailId].isForwarded) =>
        LET e == emails'[res'.emailId]
            w == req'.input.body
        IN  /\ Filled(e.originalFrom) => e.fromEmail = e.originalFrom
            /\ Filled(e.originalFromName) => e.fromName = e.originalFromName
            /\ Filled(e.originalSubject) => e.subject = e.originalSubject
            /\ e.actualSenderEmail = w.From
            /\ e.actualSenderName = Opt(w, "FromName")]_vars

\* /<marker>\s*([^\n]+)\n/ matches somewhere in the body
LineFound(body, marker) ==
    \E k \in DOMAIN body :
        /\ body[k] = marker
        /\ \E a \in (k + 1)..Len(body), e \in (k + 2)..Len(body) :
              /\ a < e
              /\ body[e] = "/"
              /\ \A j \in a..(e - 1) : body[j] # "/"
              /\ \A j \in (k + 1)..(a - 1) : Ws(body[j])

\* the body has a forwarding delimiter and at least one of the four header lines
Forwarding(body) ==
    /\ Filled(body)
    /\ \E i \in DOMAIN body : body[i] = "#"
    /\ \E marker \in {"F:", "T:", "D:", "S:"} : LineFound(body, marker)

Appended(n) ==
    /\ Len(voiceCommands') = Len(voiceCommands) + n
    /\ SubSeq(voiceCommands', 1, Len(voiceCommands)) = voiceCommands

\* every command with a valid transcript appends one record; nothing else touches the log
OneRecordPerAttempt ==
    IF req'.route = "command" /\ ValidTranscript(req'.input.transcript)
    THEN Appended(1)
    ELSE Appended(0)

\* C23 (as stated): every voice command with a valid transcript appends exactly one
\* record to the log, whether or not the command's execution succeeds, and no step
\* changes or removes a record of the log.
C23_OneLogRecordPerAttempt == [][OneRecordPerAttempt]_vars

\* C24 (as stated): the action of every resolved intent is one of the listed actions;
\* a provider output whose action is missing or not listed resolves to unknown.
C24_ActionInEnumeration ==
    Resolved =>
        LET raw == req.input.provider
        IN  /\ req.input.intent.action \in Actions
            /\ (raw.throws \/ ~Has(raw.json, "action") \/ raw.json.action \notin Actions)
                  => req.input.intent.action = "unknown"

\* a transcript that is missing, empty or not a string
NoTranscript(t) == t = NULL \/ t = <<>> \/ t = NotAString

\* a webhook body lacking one of the five required fields
Lacking(body) == \E k \in {"MessageID", "From", "To", "Subject", "Date"} : ~Has(body, k)

\* C25: invalid input is answered 400 before any side effect: a voice command whose
\* transcript is missing or not a string makes no provider call, no log record and no
\* change of the store; a speak request whose text is missing or empty does not reach
\* the manager (no quota fetch, no synthesis, cache untouched); a webhook body
\* lacking MessageID, From, To, Subject or Date changes nothing in the store.
C25_RejectedBeforeSideEffects ==
    [][/\ (req'.route = "command" /\ NoTranscript(req'.input.transcript)) =>
              /\ res'.status = 400
              /\ ~Has(req'.input, "provider")
              /\ voiceCommands' = voiceCommands
              /\ emails' = emails
       /\ (req'.route = "webhook" /\ Lacking(req'.input.body)) =>
              /\ res'.status = 400
              /\ emails' = emails
              /\ currentEmailId' = currentEmailId
       /\ (speak' # speak /\ (speak'.given.kind # "string" \/ speak'.given.len = 0)) =>
              /\ speak'.status = 400
              /\ speak'.handed = 0
              /\ ~speak'.fetched
              /\ ~speak'.synthesized
              /\ quotaInfo' = quotaInfo]_vars

\* a body lacking Subject was rejected although its MessageID is stored, and a blank
\* text was rejected with a credential configured
C25_RejectedAtBoundary ==
    /\ req.route = "webhook"
    /\ res.status = 400
    /\ req.input.body = MailBad
    /\ MailBad.MessageID \in MessageIds(emails)
    /\ apiKey
    /\ speak.status = 400
    /\ speak.given.kind = "blank"

\* the value the action gives its flag
TargetValue(action) == action \in {"mark_as_read", "mark_important"}

\* the emails of the store whose flag of the action has the action's value
HasTarget(store, action, i) ==
    IF action \in {"mark_as_read", "mark_unread"}
    THEN store[i].isRead = TargetValue(action)
    ELSE store[i].isImportant = TargetValue(action)

\* C26: mark_as_read, mark_unread and mark_important with all:true write only to emails
\* that are not archived, and remove_important with all:true only to emails that are
\* important and not archived; a write changes nothing but the action's flag; when the
\* action completes every such email has the target value; no archived email is
\* changed.
C26_FlagAllSparesArchived ==
    [][(CommandStep(MarkActions) /\ TruthyBool(Parameters(req'.input.intent), "all")) =>
        LET action == req'.input.intent.action
            scope  == Candidates(emails, action)
        IN  /\ Ids(emails') = Ids(emails)
            /\ Touched \subseteq scope
            /\ res'.writes <= Cardinality(scope)
            /\ \A i \in Archived(emails) : emails'[i] = emails[i]
            /\ \A i \in Touched : emails'[i] = Flagged(emails, action, i)[i]
            /\ res'.status = 200 => \A i \in scope : HasTarget(emails', action, i)]_vars

\* mark_unread{all:true} has completed beside an archived email that is still read
C26_ArchivedStaysRead ==
    /\ Answered("mark_unread", [all |-> TRUE])
    /\ res.status = 200
    /\ res.writes = 1
    /\ \E i \in Archived(emails) : emails[i].isRead
    /\ \E i \in Ids(emails) \ Archived(emails) : ~emails[i].isRead

\* the step is a request that called checkQuotaStatus: a speak request with a text,
\* or a quota request
QuotaStep == now' = now /\ speak'.status \notin {0, 400}

\* the cache holds an entry less than five minutes old
FreshCache == quotaInfo # NoQuota /\ now - quotaInfo.lastChecked < 5

\* C27: with ELEVENLABS_API_KEY configured, checkQuotaStatus serves the cache without
\* fetching while the entry is less than 5 minutes old; when the entry is absent or
\* at least 5 minutes old the call fetches; the cache is replaced, by an entry checked
\* now, exactly when that fetch succeeds.
C27_CacheServedWhileFresh ==
    [][(QuotaStep /\ apiKey) =>
        IF FreshCache
        THEN /\ speak'.fetch = "none"
             /\ quotaInfo' = quotaInfo
             /\ speak'.kind # "unavailable"
        ELSE /\ speak'.fetch # "none"
             /\ speak'.fetch = "ok" =>
                  (quotaInfo' # NoQuota /\ quotaInfo'.lastChecked = now)
             /\ speak'.fetch # "ok" => quotaInfo' = quotaInfo]_vars

\* a quota request was served from an entry four minutes old without a fetch
C27_ServedFromCache ==
    /\ apiKey
    /\ speak.kind = "quota"
    /\ speak.fetch = "none"
    /\ quotaInfo # NoQuota
    /\ now - quotaInfo.lastChecked = 4

\* C28: when the quota fetch fails, by a network error or a non-OK response,
\* checkQuotaStatus returns unknown without throwing and the cache stays as it was;
\* the expired entry is not served: a speak request is answered 200 with the
\* local-synthesis directive and no provider synthesis, a quota request 'unavailable'.
C28_FailedFetchIsUnknown ==
    [][(QuotaStep /\ speak'.fetch \in {"throw", "notok"}) =>
        /\ quotaInfo' = quotaInfo
        /\ speak'.status = 200
        /\ ~speak'.synthesized
        /\ speak'.kind \in {"useWebSpeech", "unavailable"}
        /\ speak'.given.kind = "string" => speak'.kind = "useWebSpeech"]_vars

\* a speak request whose fetch failed was answered with the directive although the
\* expired entry of the cache had room for the text
C28_ExpiredEntryNotServed ==
    /\ speak.fetch \in {"throw", "notok"}
    /\ speak.kind = "useWebSpeech"
    /\ quotaInfo # NoQuota
    /\ now - quotaInfo.lastChecked >= 5
    /\ quotaInfo.charactersRemaining >= CeilWithBuffer(speak.handed)

\* C29: when speak calls interleave past an expired cache, each may fetch; a
\* call whose fetch succeeds replaces the cache by the complete QuotaInfo of
\* its own response, stamped at the write, and no other step changes the cache,
\* so the cache is that of the last successful writer and never a mix; every
\* call decides premium or local synthesis from a complete QuotaInfo or from none
QuotaInfoOf(data, t) ==
    LET limit == IF data.character_limit # 0 THEN data.character_limit ELSE 10000
    IN  [charactersUsed |-> data.character_count, charactersLimit |-> limit,
         charactersRemaining |-> limit - data.character_count, lastChecked |-> t]
Writes(c) == calls[c].pc = "json" /\ calls'[c].pc = "done" /\ speak'.fetch = "ok"
Ends(c) == calls[c].pc # "done" /\ calls'[c].pc = "done" /\ speak'.status = 200
OfOneResponse(q) ==
    q # NoQuota => \E f \in RaceFetches : f.kind = "ok" /\ q = QuotaInfoOf(f, q.lastChecked)
C29_LastWriterWinsWhole ==
    [][/\ \A c \in 1..MaxCalls :
            /\ Writes(c) => /\ quotaInfo' = QuotaInfoOf(calls[c].data, now)
                            /\ calls'[c].quota = quotaInfo'
            /\ Ends(c) => /\ OfOneResponse(calls'[c].quota)
                          /\ speak'.synthesized <=>
                                /\ calls'[c].quota # NoQuota
                                /\ calls'[c].quota.charactersRemaining
                                     >= CeilWithBuffer(speak'.handed)
       /\ (\A c \in 1..MaxCalls : ~Writes(c)) => quotaInfo' = quotaInfo
       /\ OfOneResponse(quotaInfo')]_vars
\* both calls fetched past the expired cache and wrote within the cache time;
\* the cache is the second writer's, the first decided from its own
C29_BothFetchedLastWrote ==
    /\ \A c \in 1..MaxCalls : calls[c].pc = "done" /\ calls[c].data.kind = "ok"
                               /\ calls[c].quota # NoQuota
    /\ calls[1].quota.charactersUsed # calls[2].quota.charactersUsed
    /\ quotaInfo = calls[2].quota
    /\ calls[2].quota.lastChecked - calls[1].quota.lastChecked \in 0..(QuotaCacheTime - 1)

\* C30: when deliveries of one MessageID are handled concurrently, both checks
\* running before either insert, the store ends with one Email of that
\* MessageID and the delivery whose insert comes second is answered as a no-op:
\* status 200 and the store as it was
StoredAs(store, messageId) == {i \in Ids(store) : store[i].messageId = messageId}
SecondInsert(d) ==
    /\ deliveries[d].pc = "insert"
    /\ deliveries'[d].pc = "idle"
    /\ StoredAs(emails, deliveries[d].body.MessageID) # {}
C30_ConcurrentDuplicateIsNoOp ==
    [][/\ \A w \in {MailA, MailB} : Cardinality(StoredAs(emails', w.MessageID)) <= 1
       /\ \A d \in 1..MaxDeliveries :
            SecondInsert(d) => res'.status = 200 /\ emails' = emails]_vars
\* the store never holds two Emails of one MessageID
C30_OneEmailPerMessageId ==
    \A w \in {MailA, MailB} : Cardinality(StoredAs(emails, w.MessageID)) <= 1
\* the second of two concurrent deliveries was answered 500, the store holding the first
C30_DuplicateAnswered500 ==
    /\ res.status = 500
    /\ req.route = "webhook"
    /\ Cardinality(StoredAs(emails, req.input.MessageID)) = 1

\* the parameters select the sender branch of restore_emails
BySender(p) == ~TruthyBool(p, "all") /\ TruthyStr(p, "sender")

\* the archived emails of the store whose address or name holds the sender
ArchivedFrom(store, sender) ==
    {i \in Archived(store) :
        \/ ContainsTerm(store[i].fromEmail, sender)
        \/ ContainsTerm(store[i].fromName, sender)}

\* C31: restore_emails{sender:S}, under either of its names, removes no email and
\* changes only isDeleted, to false, and only on archived emails whose fromEmail
\* or fromName contains S whatever the case; when it answers 200 it has restored
\* every one of them and its count is their number; emails that are not archived
\* and archived emails of other senders are unchanged.
C31_RestoreBySender ==
    [][(CommandStep({"restore_emails", "unarchive_emails"})
          /\ BySender(Parameters(req'.input.intent))) =>
        LET targeted == ArchivedFrom(emails, Parameters(req'.input.intent).sender)
        IN  /\ Ids(emails') = Ids(emails)
            /\ \A i \in Ids(emails) \ targeted : emails'[i] = emails[i]
            /\ \A i \in targeted :
                  \/ emails'[i] = emails[i]
                  \/ emails'[i] = [emails[i] EXCEPT !.isDeleted = FALSE]
            /\ res'.status = 200 =>
                  /\ \A i \in targeted : ~emails'[i].isDeleted
                  /\ res'.count = Cardinality(targeted)
                  /\ res'.word = Parameters(req'.input.intent).sender]_vars

\* the sender's archived email is back in the inbox, found by its lower-case
\* address, while the archived email of another sender is still archived
C31_RestoredBesideOther ==
    /\ Answered("unarchive_emails", [sender |-> <<"B">>])
    /\ res.status = 200
    /\ res.count = 1
    /\ \E i \in Ids(emails) : ~emails[i].isDeleted /\ emails[i].fromEmail = <<"b">>
    /\ \E i \in Ids(emails) : emails[i].isDeleted /\ emails[i].fromEmail = <<"a">>

Inbox(store) == Ids(store) \ Archived(store)

\* list holds the n most recently received emails of the set S, newest first
MostRecentOf(store, S, n, list) ==
    /\ Len(list) = IF Cardinality(S) < n THEN Cardinality(S) ELSE n
    /\ \A k \in DOMAIN list : list[k] \in S
    /\ \A k, l \in DOMAIN list :
          k < l => store[list[k]].receivedAt > store[list[l]].receivedAt
    /\ \A i \in S :
          (\A k \in DOMAIN list : list[k] # i) =>
              \A k \in DOMAIN list : store[i].receivedAt < store[list[k]].receivedAt

\* C32: get_recent returns the 10 most recently received emails that are not
\* archived, fewer when fewer exist, and changes no email; the same request with
\* any other timeframe returns the same emails from the same store with the same
\* wording, and only the word interpolated in the summary follows the timeframe.
C32_RecentWhateverTimeframe ==
    [][CommandStep({"get_recent"}) =>
        /\ res'.status = 200
        /\ emails' = emails
        /\ MostRecentOf(emails, Inbox(emails), 10, res'.list)
        /\ \A p \in TimeframeBags :
              LET other == Dispatch([req'.input.intent EXCEPT !.parameters = p], emails, 0)
              IN  /\ other.list = res'.list
                  /\ other.summary = res'.summary
                  /\ other.emails = emails
                  /\ res'.list # <<>> =>
                        other.word = IF TruthyStr(p, "timeframe") THEN p.timeframe
                                     ELSE <<"r">>]_vars

\* eleven emails are in the inbox and the ten newest were returned for "this week"
C32_TenOfEleven ==
    /\ Answered("get_recent", [timeframe |-> <<"w">>])
    /\ Cardinality(Inbox(emails)) = 11
    /\ Len(res.list) = 10
    /\ res.word = <<"w">>
    /\ \A k \in DOMAIN res.list : res.list[k] # 1

\* the actions whose case reads or writes the store
StoreActions ==
    {"read_emails", "get_unread", "get_read", "search_emails", "mark_as_read",
     "mark_unread", "delete_emails", "mark_important", "remove_important",
     "archive_emails", "restore_emails", "unarchive_emails", "get_important",
     "get_recent", "get_archived", "permanently_delete"}

\* the step answers a command whose action is none of those
StoreFreeStep ==
    /\ req'.route = "command"
    /\ Has(req'.input, "intent")
    /\ req'.input.intent.confidence.isNumber
    /\ req'.input.intent.action \notin StoreActions

\* C33: compose_email, reply_email, forward_email, switch_tab, unknown and any
\* action the switch does not handle leave the mailbox unchanged and answer
\* what they would answer over an empty mailbox, with no email listed;
\* switch_tab returns the requested tab as switchTab, 'all' when none is given,
\* and the other actions return no switchTab.
C33_StubsLeaveMailbox ==
    [][StoreFreeStep =>
        LET intent == req'.input.intent
            p      == Parameters(intent)
            blind  == Dispatch(intent, EmptyStore, 0)
        IN  /\ emails' = emails
            /\ res'.status = 200
            /\ res'.writes = 0
            /\ res'.list = <<>>
            /\ res'.summary = blind.summary
            /\ res'.switchTab = blind.switchTab
            /\ res'.switchTab =
                  IF intent.action # "switch_tab" THEN ""
                  ELSE IF Has(p, "tab") /\ p.tab # "" THEN p.tab
                  ELSE "all"]_vars

\* the archived tab was asked for over a mailbox holding an email
C33_SwitchedToArchivedTab ==
    /\ Answered("switch_tab", [tab |-> "archived"])
    /\ res.status = 200
    /\ res.switchTab = "archived"
    /\ Inbox(emails) # {}

\* every email the answer lists is stored and satisfies the condition
Lists(list, store, Cond(_)) == \A k \in DOMAIN list : list[k] \in Ids(store) /\ Cond(store[list[k]])

InInbox(e) == ~e.isDeleted
ImportantInInbox(e) == e.isImportant /\ ~e.isDeleted
InArchive(e) == e.isDeleted

\* C34: read_emails, get_unread, get_read, search_emails, get_important,
\* get_recent and get_archived change no email; the first three list at most 5
\* emails, none archived; get_important lists only important emails that are
\* not archived and get_archived only archived emails.
C34_LookupsReadOnly ==
    [][CommandStep(LookupActions) =>
        LET action == req'.input.intent.action
        IN  /\ emails' = emails
            /\ res'.writes = 0
            /\ res'.status = 200
            /\ action \in ReadActions =>
                  /\ Len(res'.list) <= 5
                  /\ Lists(res'.list, emails, InInbox)
            /\ action = "get_important" => Lists(res'.list, emails, ImportantInInbox)
            /\ action = "get_archived" => Lists(res'.list, emails, InArchive)]_vars

\* six emails are in the inbox and read_emails listed five of them
C34_FiveOfSix ==
    /\ Answered("read_emails", EmptyObj)
    /\ Cardinality(Inbox(emails)) = 6
    /\ Len(res.list) = 5
    /\ \E i \in Ids(emails) : emails[i].isImportant

\* the flag an action writes and the value it writes
FlagWritten(action) ==
    CASE action \in {"mark_as_read", "mark_unread"}         -> "isRead"
      [] action \in {"mark_important", "remove_important"}  -> "isImportant"
      [] action \in {"archive_emails", "delete_emails",
                     "restore_emails", "unarchive_emails"}  -> "isDeleted"
      [] OTHER                                              -> "none"

ValueWritten(action) ==
    action \in {"mark_as_read", "mark_important", "archive_emails", "delete_emails"}

\* C35: a command changes a stored email only by setting the one flag of its
\* action (isRead for marking read or unread, isImportant for marking or
\* unmarking important, isDeleted for archiving, deleting and restoring) to the
\* value of the action; the other two flags and every other field of the email
\* are as before, and so is every email the command did not target.  Archiving
\* and restoring never alter isRead or isImportant, marking never alters
\* isDeleted.  No command adds an email.
C35_OneFlagPerWrite ==
    [][(req'.route = "command" /\ Has(req'.input, "intent")) =>
        LET action == req'.input.intent.action
        IN  /\ Ids(emails') \subseteq Ids(emails)
            /\ \A i \in Ids(emails') :
                  \/ emails'[i] = emails[i]
                  \/ /\ FlagWritten(action) # "none"
                     /\ emails'[i] = [emails[i] EXCEPT
                                        ![FlagWritten(action)] = ValueWritten(action)]]_vars

\* archive-all archived two emails that are read and important, and they still are
C35_ArchivedKeepFlags ==
    /\ Answered("archive_emails", [all |-> TRUE])
    /\ res.status = 200
    /\ res.count = 2
    /\ \A i \in Ids(emails) : emails[i].isDeleted /\ emails[i].isRead /\ emails[i].isImportant

\* C36: a speak request answered with premium audio leaves the cached QuotaInfo
\* as the quota check left it: unchanged when the check was served from the
\* cache; a request that follows in the same freshness window is served from
\* that cache without a fetch and is approved or not as it would have been
\* before: only if the cached charactersRemaining covers its own text with the
\* buffer, and always if it exceeds that, whatever the characters already sent.
C36_SynthesisLeavesQuota ==
    [][(SpeakStep /\ speak'.kind = "audioBuffer") =>
        /\ quotaInfo' # NoQuota
        /\ speak'.fetch = "none" => quotaInfo' = quotaInfo
        /\ quotaInfo'.charactersRemaining
             = quotaInfo'.charactersLimit - quotaInfo'.charactersUsed
        /\ \A x \in WindowTexts :
              LET next == GenerateSpeechWithFallback(x.len, apiKey, apiKeyAlt, quotaInfo',
                                                     now, [kind |-> "none"], "ok")
                  prev == GenerateSpeechWithFallback(x.len, apiKey, apiKeyAlt, quotaInfo,
                                                     now, [kind |-> "none"], "ok")
              IN  /\ ~next.fetched
                  /\ next.cache = quotaInfo'
                  /\ speak'.fetch = "none" => next.kind = prev.kind
                  /\ next.kind = "audioBuffer" =>
                        quotaInfo'.charactersRemaining >= CeilWithBuffer(x.len)
                  /\ quotaInfo'.charactersRemaining > CeilWithBuffer(x.len) =>
                        next.kind = "audioBuffer"]_vars

\* premium audio was served on the cached quota, which still covers the same
\* text once more although the two texts together exceed it
C36_SameAllowanceAgain ==
    /\ speak.kind = "audioBuffer"
    /\ speak.fetch = "none"
    /\ quotaInfo # NoQuota
    /\ now - quotaInfo.lastChecked < QuotaCacheTime
    /\ quotaInfo.charactersRemaining >= CeilWithBuffer(speak.handed)
    /\ 2 * speak.handed > quotaInfo.charactersRemaining

\* the ids the serial has handed out that are no longer stored
Gone(store, serial) == {i \in 1..(serial - 1) : i \notin Ids(store)}

\* C37: an update never creates a row: a bulk command that read an email which
\* another request then permanently deleted leaves it absent when its loop
\* reaches that id, and the store is as before that update; over every
\* interleaving an id that was deleted is never stored again and a row appears
\* only under the next id of the serial.
C37_DeletedStaysDeleted ==
    [][/\ Gone(emails, currentEmailId) \subseteq Gone(emails', currentEmailId')
       /\ Ids(emails') \ Ids(emails) \subseteq {currentEmailId}
       /\ \A k \in 1..MaxLoops :
            (loops[k].pc = "loop" /\ loops'[k] # loops[k]) =>
                /\ Ids(emails') = Ids(emails)
                /\ Head(loops[k].rows) \notin Ids(emails) => emails' = emails]_vars

\* a restore-all read an archived email, the email was permanently deleted
\* before the loop reached it, and it is absent after the loop's update
C37_UpdateMissedDeleted ==
    \E k \in 1..MaxLoops :
        /\ loops[k].pc = "done"
        /\ loops[k].missed # {}
        /\ loops[k].missed \subseteq Gone(emails, currentEmailId)
        /\ req.route = "command"
        /\ req.input.intent.action = "restore_emails"
        /\ res.status = 200
        /\ res.count = 2
        /\ Cardinality(Ids(emails)) = 1

\* the summary of a single-target action that updated the email of the given id
TargetSummary(action) ==
    CASE action = "mark_as_read"     -> "marked_that_read"
      [] action = "mark_unread"      -> "marked_unread"
      [] action = "mark_important"   -> "marked_important"
      [] action = "remove_important" -> "removed_important"
      [] action = "delete_emails"    -> "email_deleted"

\* a single-target action given one of the ids, which no stored email has, leaves
\* the store as it was and answers with the summary of a successful update
MissingTarget(ids) ==
    LET p == Parameters(req'.input.intent)
    IN  (/\ CommandStep(TargetActions)
         /\ Has(p, "emailId") /\ ~TruthyBool(p, "all")
         /\ p.emailId \in ids
         /\ p.emailId.v \notin Ids(emails)) =>
            /\ emails' = emails
            /\ res'.status = 200
            /\ res'.summary = TargetSummary(req'.input.intent.action)

\* C38 (as stated): mark_as_read, mark_unread, mark_important, remove_important and
\* delete_emails given an emailId that matches no stored email change nothing in
\* the store and return the same success summary as when the email exists.
C38_MissingTargetIsNoOp == [][MissingTarget(TargetIds)]_vars

\* a confidence in thousandths
InThousandths(confidence) ==
    confidence.v * 10 + (IF Has(confidence, "m") THEN confidence.m ELSE 0)

\* the command of the step was logged: one record is appended, holding the action,
\* the nearest whole percentage of the intent's confidence and whether the action
\* is known
Logged ==
    LET intent == req'.input.intent
        record == voiceCommands'[Len(voiceCommands')]
    IN  /\ Appended(1)
        /\ record.transcript = req'.input.transcript
        /\ record.intent = intent.action
        /\ record.confidence \in 0..100
        /\ record.confidence * 10 - InThousandths(intent.confidence) \in -5..5
        /\ record.success = (intent.action # "unknown")

\* C39: the log record of a command is written before the command's mailbox
\* action: every command whose intent was resolved with a numeric confidence
\* appends its record, also when the dispatch then fails at its first write; the
\* record's confidence is the intent's confidence times 100 rounded to an integer
\* in 0..100 and its success is true exactly when the action is not unknown,
\* whatever the outcome of the dispatch; no other step changes the log, and no
\* command changes the mailbox without its record.
C39_LoggedBeforeDispatch ==
    [][/\ IF CommandStep(Actions \cup {UnlistedAction}) THEN Logged ELSE Appended(0)
       /\ (req'.route = "command" /\ emails' # emails) => Appended(1)]_vars

\* a command failed at its first store write: the mailbox is as before, the answer
\* is 500 and the record, with confidence 86 for 0.857, says success
C39_LoggedThoughDispatchFailed ==
    /\ Answered("archive_emails", [all |-> TRUE])
    /\ req.input.intent.confidence = Thousandths(857)
    /\ res.status = 500
    /\ res.writes = 0
    /\ \E i \in Ids(emails) : ~emails[i].isDeleted
    /\ voiceCommands # <<>>
    /\ voiceCommands[Len(voiceCommands)] =
         [transcript |-> Transcript, intent |-> "archive_emails", confidence |-> 86,
          success |-> TRUE]
====
